---- MODULE Spec2Model ----
(***************************************************************************)
(* A model of the replicated chat service: the Replication Peer            *)
(* (replication.py, class ReplicationServer), the Chat Core (server.py,    *)
(* class ChatServer) and the Persistent Store (storage.py, class Storage). *)
(*                                                                         *)
(* Threads of one replica are interleaved at their blocking points: the    *)
(* time.sleep calls, the election lock, socket reads and the queue.get of  *)
(* the sender thread.  Wall-clock comparisons are abstracted to booleans   *)
(* that a TimePasses action flips (hbRecent: a heartbeat arrived less than *)
(* 2 * heartbeat_interval ago; syncDue: the last sync is older than        *)
(* sync_interval).  uuid4() is a draw from a global counter (nextId).      *)
(***************************************************************************)
EXTENDS Naturals, Integers, Sequences, FiniteSets, TLC

\* ------------------------------------------------------------------ bounds
\* the cluster of the fault-tolerance tests: three replicas
NumReplicas == 3
\* heartbeats emitted in one run, over all replicas
MaxBeats == 1
\* elections started in one run, over all replicas
MaxElections == 2
\* message ids (uuid4 draws) in one run
MaxId == 6
\* client commands read in one run
MaxCmds == 3
\* sync intervals that run out in one run
MaxSyncs == 1

\* max_missed_heartbeats
MaxMissed == 3

Replicas == 1..NumReplicas
UserSeq == <<"alice", "bob">>
Users == {UserSeq[i] : i \in 1..Len(UserSeq)}
Passwords == {"p1"}
Bodies == {"hi"}
\* the limit of a deliver command: 0 peeks, a positive limit consumes
Limits == {0, 1}
NoPw == "none"
\* client connections that exist in one run
NumConns == 2
Conns == 1..NumConns
\* the value of a current_users entry: no session, or a socket already closed
NoConn == 0
ClosedSock == NumConns + 1

PRIMARY == "PRIMARY"
BACKUP == "BACKUP"
CANDIDATE == "CANDIDATE"

VARIABLES
  alive,        \* the replica's process is running
  rstate,       \* ReplicationServer.state
  sstate,       \* the role in the store's server_state.txt
  rtrans,       \* ReplicationServer.transitioning
  strans,       \* ChatServer.transitioning
  missed,       \* ReplicationServer.missed_heartbeats (3 stands for >= 3)
  hbRecent,     \* time.time() - last_heartbeat <= 2 * heartbeat_interval
  timerArmed,   \* an election_timer is armed and has not fired
  syncDue,      \* time.time() - last_sync_time > sync_interval
  eowner,       \* the thread holding election_lock: "none", "mon", "timer" or "handler"
  epc,          \* where the holder is in _start_election / _become_primary
  hpc,          \* hpc[r][p]: what the _handle_peer thread of r for peer p is doing
  conn,         \* keys of peer_connections
  backups,      \* ReplicationServer.backups
  chan,         \* chan[p][r]: frames written by p on its link to r and not yet read
  outq,         \* ReplicationServer.outgoing_queue
  usersFile,    \* users.txt of the replica's data_dir
  msgFile,      \* messages_<user>.txt of the replica's data_dir
  usersMem,     \* ChatServer.users
  currentUsers, \* ChatServer.current_users: username -> client connection
  seen,         \* ChatServer.client_seen_messages
  nextId,       \* the next uuid4 draw
  csrv,         \* the replica whose handle_client thread serves the connection (0: none)
  sockOpen,     \* the server side of the client socket is open
  clients,      \* the connections whose client program runs in this run
  cpc,          \* the continuation of the handle_client thread of a connection
  cuser,        \* the local `username` of handle_client: the src of the last command
  nelect,       \* elections that may still be started in this run
  nbeats,       \* heartbeats that may still be emitted in this run
  ncmds,        \* client commands that may still be read in this run
  wire,         \* wire[c]: the frames written on the client socket since the client's last command
  accepting,    \* the main thread of the replica is blocked in server.accept()
  nstops,       \* replica processes that may still be stopped in this run
  nsyncs,       \* sync intervals that may still run out in this run
  hist,         \* history of the run, read by the properties only
  repl_client,  \* the ReplicationClient of the client program
  cenv,         \* the sockets of the client program and the record of its requests
  sto,          \* the Storage calls in progress in the threads of one replica
  codec,        \* the Message a protocol object is encoding and decoding
  csock         \* the bytes written on one client socket, and who is writing

roleVars == <<alive, rstate, sstate, rtrans, strans>>
monVars == <<missed, hbRecent, timerArmed, syncDue>>
elecVars == <<eowner, epc, nelect>>
netVars == <<hpc, conn, backups, chan, outq>>
storeVars == <<usersFile, msgFile, nextId>>
coreVars == <<usersMem, currentUsers, seen>>
cliVars == <<csrv, sockOpen, cpc, cuser, ncmds, wire, accepting>>
limits == <<nstops, nbeats, nsyncs, clients>>
bench == <<sto, codec, csock>>
layer == <<repl_client, cenv, bench>>
vars == <<roleVars, monVars, elecVars, netVars, storeVars, coreVars, cliVars, limits, hist, layer>>

\* ------------------------------------------------------------------ frames
\* ReplicationProtocol.encode_message: {cmd, data, timestamp}; the timestamp is
\* read by no receiver
Frame(cmd, type, data) == [cmd |-> cmd, type |-> type, data |-> data]
Plain(cmd) == Frame(cmd, "", "")
EOF == Plain("EOF")

\* the handle_client thread is blocked in client.recv
Idle == [k |-> "idle"]

Min(a, b) == IF a < b THEN a ELSE b

\* ------------------------------------------------------- client frames
\* protocol.Message as the handlers fill it for a client: cmd, src, to, body,
\* msg_ids and error
ReplyTo(cmd, body, to) ==
  [cmd |-> cmd, src |-> "", to |-> to, body |-> body, msg_ids |-> {}, error |-> FALSE]
Reply(cmd, body) == ReplyTo(cmd, body, "")
\* a response without the error flag where a handler answers a failed check
Unflagged(cmd, body) == Reply(cmd, body)
Error(cmd, body) ==
  [cmd |-> cmd, src |-> "", to |-> "", body |-> body, msg_ids |-> {}, error |-> TRUE]

\* server.py 375 and 439: the deliver frame of one message
Deliver(id, from, body) ==
  [cmd |-> "deliver", src |-> from, to |-> "", body |-> body, msg_ids |-> {id}, error |-> FALSE]

\* client.send of the frames on a client socket: it raises on a socket the
\* server has closed, and every caller swallows that
Sent(w, c, frames) ==
  IF c \in Conns /\ sockOpen[c] THEN [w EXCEPT ![c] = @ \o frames] ELSE w

\* client.py 170-214: the listener thread of the client has read every frame of
\* its socket by the time the client sends its next command
Drained(c) == [wire EXCEPT ![c] = <<>>]

Peers(r) == Replicas \ {r}

\* ------------------------------------------------------- Persistent Store
\* A message is the triple (id, sender, body) of add_message.
MsgId(m) == m[1]
MsgSender(m) == m[2]
MsgBody(m) == m[3]

IdsOf(q) == {MsgId(q[i]) : i \in 1..Len(q)}

RECURSIVE FilterSeq(_, _)
\* [msg for msg in messages if <keep>], keep given as the set of kept messages
FilterSeq(q, keep) ==
  IF q = <<>> THEN <<>>
  ELSE IF Head(q) \in keep THEN <<Head(q)>> \o FilterSeq(Tail(q), keep)
       ELSE FilterSeq(Tail(q), keep)

NoUsers == [u \in Users |-> NoPw]
NoMsgs == [u \in Users |-> <<>>]

\* Storage.user_exists
user_exists(uf, u) == uf[u] # NoPw

\* Storage.add_user
add_user(uf, u, pw) == [uf EXCEPT ![u] = pw]

\* Storage.add_message with the uuid4 draw passed in as id
add_message(mf, to, from, body, id) ==
  [mf EXCEPT ![to] = Append(@, <<id, from, body>>)]

\* delete_messages that empties the queue whatever ids it is given
DeleteMessagesAll(mf, u, ids) == [mf EXCEPT ![u] = <<>>]

\* Storage.delete_messages
delete_messages(mf, u, ids) ==
  [mf EXCEPT ![u] = FilterSeq(@, {m \in {mf[u][i] : i \in 1..Len(mf[u])} : MsgId(m) \notin ids})]

\* Storage.delete_user: the users file, then the user's message file, then the
\* messages the user sent, in the queues of the users that remain in the file
delete_user_users(uf, u) == [uf EXCEPT ![u] = NoPw]
delete_user_msgs(uf, mf, u) ==
  [v \in Users |->
     IF v = u THEN <<>>
     ELSE IF delete_user_users(uf, u)[v] # NoPw
          THEN FilterSeq(mf[v], {m \in {mf[v][i] : i \in 1..Len(mf[v])} : MsgSender(m) # u})
          ELSE mf[v]]

\* ------------------------------------------------ applying remote updates
\* The data of one replica that _handle_data_update and _handle_sync_data
\* touch: users.txt, the message files, ChatServer.users, the uuid4 draws and
\* the client sockets of the sessions.
Data(r) ==
  [uf |-> usersFile[r], mf |-> msgFile[r], um |-> usersMem[r], nid |-> nextId, w |-> wire]

\* server.py 131-137: the inline write of _handle_data_update is attempted when
\* the stored role is PRIMARY and the recipient has a session; client.send
\* raises when that socket has been closed
InlineTried(r, to) == sstate[r] = PRIMARY /\ currentUsers[r][to] # NoConn
InlineOk(r, to) ==
  InlineTried(r, to) /\ currentUsers[r][to] \in Conns /\ sockOpen[currentUsers[r][to]]

\* ChatServer._handle_data_update
HandleDataUpdate(S, r, type, data) ==
  CASE type = "ADD_USER" -> [S EXCEPT !.um = [@ EXCEPT ![data.username] = data.password]]
    [] type = "DELETE_USER" -> [S EXCEPT !.um = [@ EXCEPT ![data.username] = NoPw]]
    [] type = "ADD_MESSAGE" ->
         IF InlineOk(r, data.to)
         THEN [S EXCEPT !.w = Sent(@, currentUsers[r][data.to],
                                   <<Deliver(data.msg_id, data.from, data.content)>>)]
         ELSE [S EXCEPT !.mf = add_message(@, data.to, data.from, data.content, S.nid),
                        !.nid = @ + 1]
    [] type = "DELETE_MESSAGES" ->
         [S EXCEPT !.mf = delete_messages(@, data.username, data.msg_ids)]
    [] OTHER -> S

\* ReplicationServer._handle_sync_data, USERS: a user missing from users.txt is
\* added to it and announced to the Chat Core
SyncUsers(S, r, data) ==
  [S EXCEPT
     !.uf = [u \in Users |-> IF data[u] # NoPw /\ ~user_exists(S.uf, u) THEN data[u] ELSE S.uf[u]],
     !.um = [u \in Users |-> IF data[u] # NoPw /\ ~user_exists(S.uf, u) THEN data[u] ELSE S.um[u]]]

RECURSIVE SyncQueue(_, _, _, _, _)
\* replication.py 603-612: the loop over one user's synced messages; existing
\* holds the ids read before the loop
SyncQueue(S, r, u, q, existing) ==
  IF q = <<>> THEN S
  ELSE LET m == Head(q) IN
       IF MsgId(m) \in existing THEN SyncQueue(S, r, u, Tail(q), existing)
       ELSE LET S1 == [S EXCEPT !.mf = add_message(@, u, MsgSender(m), MsgBody(m), S.nid),
                                !.nid = @ + 1]
                S2 == HandleDataUpdate(S1, r, "ADD_MESSAGE",
                        [to |-> u, from |-> MsgSender(m), content |-> MsgBody(m),
                         msg_id |-> MsgId(m)])
            IN SyncQueue(S2, r, u, Tail(q), existing)

RECURSIVE SyncMessages(_, _, _, _)
\* replication.py 596-601: the loop over the users of the synced messages
SyncMessages(S, r, data, us) ==
  IF us = <<>> THEN S
  ELSE LET u == Head(us) IN
       SyncMessages(SyncQueue(S, r, u, data[u], IdsOf(S.mf[u])), r, data, Tail(us))

\* ReplicationServer._handle_sync_data
HandleSyncData(S, r, type, data) ==
  CASE type = "USERS" -> SyncUsers(S, r, data)
    [] type = "MESSAGES" -> SyncMessages(S, r, data, UserSeq)
    [] OTHER -> S

\* _get_users_data and _get_messages_data: the queues of the users of users.txt
UsersData(r) == usersFile[r]
MessagesData(r) == [u \in Users |-> IF user_exists(usersFile[r], u) THEN msgFile[r][u] ELSE <<>>]

\* the three frames _handle_sync_request writes on the peer's socket
SyncFrames(r) ==
  << Frame("SYNC_DATA", "USERS", UsersData(r)),
     Frame("SYNC_DATA", "MESSAGES", MessagesData(r)),
     Plain("SYNC_COMPLETE") >>

\* ------------------------------------------------------------ peer links
\* conn.send on the socket of peer `to`: the frames reach the link when the peer
\* is in peer_connections and its process runs; otherwise the write is lost
Written(ch, from, to, frames) ==
  IF to \in conn[from] /\ alive[to]
  THEN [ch EXCEPT ![from][to] = @ \o frames]
  ELSE ch

RECURSIVE WrittenAll(_, _, _, _)
\* replication.py 306-311: the same frame on every socket of peer_connections
WrittenAll(ch, from, tos, frames) ==
  IF tos = {} THEN ch
  ELSE LET t == CHOOSE x \in tos : TRUE IN
       WrittenAll(Written(ch, from, t, frames), from, tos \ {t}, frames)

\* the destination "ALL" of an outgoing_queue entry
ALL == 0

\* outgoing_queue.put((dest, message))
Enqueued(q, dest, frame) == Append(q, <<dest, frame>>)

\* next(iter(self.peer_connections.keys())): the first key of the dict
FirstPeer(r) == CHOOSE p \in conn[r] : \A q \in conn[r] : p <= q

\* ------------------------------------------------------------- sessions
\* server.py 87-104: on BACKUP every session socket is notified and closed and
\* current_users is cleared
SessionSocks(r) == {currentUsers[r][u] : u \in Users} \cap Conns

\* ------------------------------------------------------------- election
LockFree(r) == eowner[r] = "none"

\* replication.py 346-357: _start_election up to the sleep of on_state_change
\* ("CANDIDATE"), run by thread `owner` once it holds election_lock
StartElection(r, owner) ==
  IF rstate[r] \in {PRIMARY, CANDIDATE}
  THEN UNCHANGED <<rstate, sstate, strans, eowner, epc, nelect>>
  ELSE /\ nelect > 0
       /\ rstate' = [rstate EXCEPT ![r] = CANDIDATE]
       /\ sstate' = [sstate EXCEPT ![r] = CANDIDATE]
       /\ strans' = [strans EXCEPT ![r] = TRUE]
       /\ eowner' = [eowner EXCEPT ![r] = owner]
       /\ epc' = [epc EXCEPT ![r] = "cand"]
       /\ nelect' = nelect - 1

\* server.py 107-108 and replication.py 359-366: on_state_change("CANDIDATE")
\* returns, ELECTION is queued for all peers, the candidate sleeps
ElectionAnnounce(r) ==
  /\ alive[r] /\ epc[r] = "cand"
  /\ strans' = [strans EXCEPT ![r] = FALSE]
  /\ outq' = [outq EXCEPT ![r] = Enqueued(@, ALL, Plain("ELECTION"))]
  /\ epc' = [epc EXCEPT ![r] = "wait"]
  /\ UNCHANGED <<alive, rstate, sstate, rtrans, monVars, eowner, nelect, hpc, conn,
                 backups, chan, storeVars, coreVars, cliVars, limits, hist, layer>>

\* the thread that held election_lock goes back to what it was doing
Released(r) ==
  /\ eowner' = [eowner EXCEPT ![r] = "none"]
  /\ epc' = [epc EXCEPT ![r] = "idle"]
  /\ hpc' = [hpc EXCEPT ![r] = [p \in Replicas |-> IF @[p] = "elect" THEN "recv" ELSE @[p]]]

\* replication.py 368-382 and server.py 72-82: the wait is over; a replica that
\* is still CANDIDATE enters _become_primary, up to the sleep of on_state_change
ElectionWaitOver(r) ==
  /\ alive[r] /\ epc[r] = "wait"
  /\ IF rstate[r] = CANDIDATE
     THEN /\ rtrans' = [rtrans EXCEPT ![r] = TRUE]
          /\ rstate' = [rstate EXCEPT ![r] = PRIMARY]
          /\ sstate' = [sstate EXCEPT ![r] = PRIMARY]
          /\ strans' = [strans EXCEPT ![r] = TRUE]
          /\ epc' = [epc EXCEPT ![r] = "prim1"]
          /\ UNCHANGED <<eowner, hpc>>
     ELSE /\ Released(r)
          /\ UNCHANGED <<rtrans, rstate, sstate, strans>>
  /\ UNCHANGED <<alive, monVars, nelect, conn, backups, chan, outq, storeVars, coreVars,
                 cliVars, limits, hist, layer>>

\* _request_data_sync: SYNC_REQUEST for the first connected peer, if any
SyncRequested(q, r) ==
  IF conn[r] = {} THEN q ELSE Enqueued(q, FirstPeer(r), Plain("SYNC_REQUEST"))

\* server.py 107-108 and replication.py 384-398: on_state_change("PRIMARY")
\* returns, ELECTED is queued, backups is reset, the sync is requested
BecomePrimaryAnnounce(r) ==
  /\ alive[r] /\ epc[r] = "prim1"
  /\ strans' = [strans EXCEPT ![r] = FALSE]
  /\ outq' = [outq EXCEPT ![r] = SyncRequested(Enqueued(@, ALL, Plain("ELECTED")), r)]
  /\ backups' = [backups EXCEPT ![r] = conn[r]]
  /\ epc' = [epc EXCEPT ![r] = "prim2"]
  /\ UNCHANGED layer
  /\ hist' = [hist EXCEPT !.syncWanted[r] = (conn[r] # {})]
  /\ UNCHANGED <<alive, rstate, sstate, rtrans, monVars, eowner, nelect, hpc, conn, chan,
                 storeVars, coreVars, cliVars, limits>>

\* _become_primary without the reset of line 401
BecomePrimaryKeepsFlag(r) ==
  /\ alive[r] /\ epc[r] = "prim2"
  /\ Released(r)
  /\ UNCHANGED <<roleVars, monVars, nelect, conn, backups, chan, outq, storeVars, coreVars,
                 cliVars, limits, hist, layer>>

\* replication.py 400-402: the transition into PRIMARY is complete
BecomePrimaryDone(r) ==
  /\ alive[r] /\ epc[r] = "prim2"
  /\ rtrans' = [rtrans EXCEPT ![r] = FALSE]
  /\ Released(r)
  /\ UNCHANGED <<alive, rstate, sstate, strans, monVars, nelect, conn, backups, chan, outq,
                 storeVars, coreVars, cliVars, limits, hist, layer>>

\* ------------------------------------------------------------ _handle_peer
CanRecv(r, p) == alive[r] /\ hpc[r][p] = "recv" /\ chan[p][r] # <<>>
Popped(p, r) == [chan EXCEPT ![p][r] = Tail(@)]
WillElect(r) == rstate[r] \notin {PRIMARY, CANDIDATE}

\* replication.py 194-196 and 281-296: the link is closed by the peer; the handler
\* thread forgets the peer and ends
RecvEOF(r, p) ==
  /\ CanRecv(r, p) /\ Head(chan[p][r]) = EOF
  /\ chan' = [chan EXCEPT ![p][r] = <<>>, ![r][p] = <<>>]
  /\ conn' = [conn EXCEPT ![r] = @ \ {p}]
  /\ backups' = [backups EXCEPT ![r] = @ \ {p}]
  /\ hpc' = [hpc EXCEPT ![r][p] = "closed"]
  /\ UNCHANGED <<roleVars, monVars, elecVars, outq, storeVars, coreVars, cliVars, limits, hist, layer>>

\* replication.py 202-203: while transitioning every frame read is discarded
RecvDropped(r, p) ==
  /\ CanRecv(r, p) /\ Head(chan[p][r]) # EOF
  /\ rtrans[r]
  /\ chan' = Popped(p, r)
  /\ UNCHANGED layer
  /\ hist' = [hist EXCEPT !.lostUpdate = @ \/ Head(chan[p][r]).cmd = "DATA_UPDATE"]
  /\ UNCHANGED <<roleVars, monVars, elecVars, hpc, conn, backups, outq, storeVars, coreVars,
                 cliVars, limits>>

\* replication.py 205-212
RecvHeartbeat(r, p) ==
  /\ CanRecv(r, p) /\ Head(chan[p][r]).cmd = "HEARTBEAT"
  /\ ~rtrans[r]
  /\ chan' = Popped(p, r)
  /\ hbRecent' = [hbRecent EXCEPT ![r] = TRUE]
  /\ timerArmed' = [timerArmed EXCEPT ![r] = TRUE]
  /\ UNCHANGED <<roleVars, missed, syncDue, elecVars, hpc, conn, backups, outq, storeVars,
                 coreVars, cliVars, limits, hist, layer>>

\* server.py 90: the notice of a session socket when the replica turns BACKUP
BackupMode == Error("server_status", "Server is now in backup mode, please reconnect")

\* server.py 88-101: for each entry of current_users, in the order of the
\* dict, the notice is written on its socket (the send raises on a socket
\* already closed, and the except swallows that) and the socket is closed;
\* us: the names still to visit, w and open: the sockets so far
RECURSIVE CloseSessions(_, _, _, _)
CloseSessions(us, cu, w, open) ==
  IF us = <<>> THEN [w |-> w, open |-> open]
  ELSE LET s == cu[Head(us)] IN
       IF s \notin Conns THEN CloseSessions(Tail(us), cu, w, open)
       ELSE CloseSessions(Tail(us), cu,
                          IF open[s] THEN [w EXCEPT ![s] = Append(@, BackupMode)] ELSE w,
                          [open EXCEPT ![s] = FALSE])

\* replication.py 406-413 and server.py 72-104: _become_backup up to the sleep of
\* on_state_change("BACKUP"); every session socket is notified and closed
BecomeBackupBegin(r, p, cause) ==
  /\ rtrans' = [rtrans EXCEPT ![r] = TRUE]
  /\ rstate' = [rstate EXCEPT ![r] = BACKUP]
  /\ sstate' = [sstate EXCEPT ![r] = BACKUP]
  /\ strans' = [strans EXCEPT ![r] = TRUE]
  /\ wire' = CloseSessions(UserSeq, currentUsers[r], wire, sockOpen).w
  /\ sockOpen' = CloseSessions(UserSeq, currentUsers[r], wire, sockOpen).open
  /\ currentUsers' = [currentUsers EXCEPT ![r] = [u \in Users |-> NoConn]]
  /\ hpc' = [hpc EXCEPT ![r][p] = cause]

\* replication.py 214-228; only STATE_CHANGE{BACKUP} is ever sent (line 416)
RecvStateChange(r, p) ==
  /\ CanRecv(r, p) /\ Head(chan[p][r]).cmd = "STATE_CHANGE"
  /\ ~rtrans[r]
  /\ chan' = Popped(p, r)
  /\ IF Head(chan[p][r]).data = PRIMARY /\ rstate[r] = PRIMARY /\ p > r
     THEN /\ BecomeBackupBegin(r, p, "stepdown_sc")
          /\ UNCHANGED backups
     ELSE /\ backups' = [backups EXCEPT ![r] =
                IF Head(chan[p][r]).data = PRIMARY /\ rstate[r] = BACKUP THEN @ \ {p} ELSE @]
          /\ UNCHANGED <<rtrans, rstate, sstate, strans, sockOpen, wire, currentUsers, hpc>>
  /\ UNCHANGED <<alive, monVars, elecVars, conn, outq, storeVars, usersMem, seen, csrv, accepting, cpc,
                 cuser, ncmds, limits, hist, layer>>

\* replication.py 230-240: a replica with the higher identity starts its own
\* election (waiting for election_lock if it is held); otherwise it writes
\* ELECTION_ACK on the link
RecvElection(r, p) ==
  /\ CanRecv(r, p) /\ Head(chan[p][r]).cmd = "ELECTION"
  /\ ~rtrans[r]
  /\ IF p < r
     THEN /\ chan' = Popped(p, r)
          /\ IF LockFree(r)
             THEN /\ StartElection(r, "handler")
                  /\ hpc' = [hpc EXCEPT ![r][p] = IF WillElect(r) THEN "elect" ELSE "recv"]
             ELSE /\ hpc' = [hpc EXCEPT ![r][p] = "lockwait"]
                  /\ UNCHANGED <<rstate, sstate, strans, eowner, epc, nelect>>
     ELSE /\ chan' = Written(Popped(p, r), r, p, <<Plain("ELECTION_ACK")>>)
          /\ UNCHANGED <<rstate, sstate, strans, eowner, epc, nelect, hpc>>
  /\ UNCHANGED <<alive, rtrans, monVars, conn, backups, outq, storeVars, coreVars, cliVars,
                 limits, hist, layer>>

\* replication.py 346: the handler thread that waited for election_lock gets it
HandlerLockAcquired(r, p) ==
  /\ alive[r] /\ hpc[r][p] = "lockwait" /\ LockFree(r)
  /\ StartElection(r, "handler")
  /\ hpc' = [hpc EXCEPT ![r][p] = IF WillElect(r) THEN "elect" ELSE "recv"]
  /\ UNCHANGED <<alive, rtrans, monVars, conn, backups, chan, outq, storeVars, coreVars,
                 cliVars, limits, hist, layer>>

\* replication.py 242-254: a PRIMARY steps down on ELECTED, whoever sent it; in
\* every other role only the election timer is rearmed
RecvElected(r, p) ==
  /\ CanRecv(r, p) /\ Head(chan[p][r]).cmd = "ELECTED"
  /\ ~rtrans[r]
  /\ chan' = Popped(p, r)
  /\ IF rstate[r] = PRIMARY
     THEN /\ BecomeBackupBegin(r, p, "stepdown")
          /\ UNCHANGED timerArmed
     ELSE /\ timerArmed' = [timerArmed EXCEPT ![r] = TRUE]
          /\ UNCHANGED <<rtrans, rstate, sstate, strans, sockOpen, wire, currentUsers, hpc>>
  /\ UNCHANGED <<alive, missed, hbRecent, syncDue, elecVars, conn, backups, outq, storeVars,
                 usersMem, seen, csrv, accepting, cpc, cuser, ncmds,
                 limits, hist, layer>>

\* server.py 107-108 and replication.py 415-423: on_state_change("BACKUP")
\* returns, STATE_CHANGE{BACKUP} is queued, the transition is complete; the
\* ELECTED branch then rearms the election timer
BecomeBackupDone(r, p) ==
  /\ alive[r] /\ hpc[r][p] \in {"stepdown", "stepdown_sc"}
  /\ strans' = [strans EXCEPT ![r] = FALSE]
  /\ rtrans' = [rtrans EXCEPT ![r] = FALSE]
  /\ outq' = [outq EXCEPT ![r] = Enqueued(@, ALL, Frame("STATE_CHANGE", "", BACKUP))]
  /\ timerArmed' = [timerArmed EXCEPT ![r] = IF hpc[r][p] = "stepdown" THEN TRUE ELSE @]
  /\ backups' = [backups EXCEPT ![r] = IF hpc[r][p] = "stepdown_sc" THEN @ \ {p} ELSE @]
  /\ hpc' = [hpc EXCEPT ![r][p] = "recv"]
  /\ UNCHANGED <<alive, rstate, sstate, missed, hbRecent, syncDue, elecVars, conn, chan,
                 storeVars, coreVars, cliVars, limits, hist, layer>>

\* frames no branch of _handle_peer matches: ELECTION_ACK and the second HELLO
RecvIgnored(r, p) ==
  /\ CanRecv(r, p) /\ Head(chan[p][r]).cmd \in {"ELECTION_ACK", "HELLO"}
  /\ ~rtrans[r]
  /\ chan' = Popped(p, r)
  /\ UNCHANGED <<roleVars, monVars, elecVars, hpc, conn, backups, outq, storeVars, coreVars,
                 cliVars, limits, hist, layer>>

\* ------------------------------------------------- data frames on a link
DataSet(r, S) ==
  /\ S.nid <= MaxId + 1
  /\ usersFile' = [usersFile EXCEPT ![r] = S.uf]
  /\ msgFile' = [msgFile EXCEPT ![r] = S.mf]
  /\ usersMem' = [usersMem EXCEPT ![r] = S.um]
  /\ nextId' = S.nid
  /\ wire' = S.w

\* replication.py 256-261
RecvDataUpdate(r, p) ==
  /\ CanRecv(r, p) /\ Head(chan[p][r]).cmd = "DATA_UPDATE"
  /\ ~rtrans[r]
  /\ chan' = Popped(p, r)
  /\ DataSet(r, HandleDataUpdate(Data(r), r, Head(chan[p][r]).type, Head(chan[p][r]).data))
  /\ UNCHANGED <<roleVars, monVars, elecVars, hpc, conn, backups, outq, currentUsers, seen,
                 csrv, accepting, sockOpen, cpc, cuser, ncmds, limits, hist, layer>>

\* replication.py 263-266: the answer is written on the link by the handler thread
RecvSyncRequest(r, p) ==
  /\ CanRecv(r, p) /\ Head(chan[p][r]).cmd = "SYNC_REQUEST"
  /\ ~rtrans[r]
  /\ chan' = Written(Popped(p, r), r, p, SyncFrames(r))
  /\ UNCHANGED <<roleVars, monVars, elecVars, hpc, conn, backups, outq, storeVars, coreVars,
                 cliVars, limits, hist, layer>>

\* replication.py 268-273
RecvSyncData(r, p) ==
  /\ CanRecv(r, p) /\ Head(chan[p][r]).cmd = "SYNC_DATA"
  /\ ~rtrans[r]
  /\ chan' = Popped(p, r)
  /\ DataSet(r, HandleSyncData(Data(r), r, Head(chan[p][r]).type, Head(chan[p][r]).data))
  /\ UNCHANGED layer
  /\ hist' = [hist EXCEPT !.syncWanted[r] = IF Head(chan[p][r]).type = "MESSAGES" THEN FALSE ELSE @]
  /\ UNCHANGED <<roleVars, monVars, elecVars, hpc, conn, backups, outq, currentUsers, seen,
                 csrv, accepting, sockOpen, cpc, cuser, ncmds, limits>>

\* replication.py 275-277
RecvSyncComplete(r, p) ==
  /\ CanRecv(r, p) /\ Head(chan[p][r]).cmd = "SYNC_COMPLETE"
  /\ ~rtrans[r]
  /\ chan' = Popped(p, r)
  /\ syncDue' = [syncDue EXCEPT ![r] = FALSE]
  /\ UNCHANGED <<roleVars, missed, hbRecent, timerArmed, elecVars, hpc, conn, backups, outq,
                 storeVars, coreVars, cliVars, limits, hist, layer>>

\* ------------------------------------------- the threads of the peer
\* more than 2 * heartbeat_interval goes by: the last HEARTBEAT of every running
\* replica is old now
TimePasses ==
  /\ \E r \in Replicas : alive[r] /\ hbRecent[r]
  /\ hbRecent' = [r \in Replicas |-> IF alive[r] THEN FALSE ELSE hbRecent[r]]
  /\ UNCHANGED <<roleVars, missed, timerArmed, syncDue, elecVars, netVars, storeVars,
                 coreVars, cliVars, limits, hist, layer>>

\* more than sync_interval goes by since last_sync_time
SyncTimePasses(r) ==
  /\ alive[r] /\ ~syncDue[r]
  /\ nsyncs > 0
  /\ nsyncs' = nsyncs - 1
  /\ syncDue' = [syncDue EXCEPT ![r] = TRUE]
  /\ UNCHANGED <<roleVars, missed, hbRecent, timerArmed, elecVars, netVars, storeVars,
                 coreVars, cliVars, nstops, nbeats, clients, hist, layer>>

\* a monitor that starts the election at the first missed heartbeat
MonitorTickEager(r) ==
  /\ alive[r] /\ eowner[r] # "mon" /\ rstate[r] = BACKUP
  /\ IF hbRecent[r]
     THEN /\ missed[r] > 0
          /\ missed' = [missed EXCEPT ![r] = 0]
          /\ UNCHANGED <<rstate, sstate, strans, eowner, epc, nelect>>
     ELSE /\ missed' = [missed EXCEPT ![r] = Min(@ + 1, MaxMissed)]
          /\ LockFree(r) /\ StartElection(r, "mon")
  /\ UNCHANGED <<alive, rtrans, hbRecent, timerArmed, syncDue, netVars, storeVars, coreVars,
                 cliVars, limits, hist, layer>>

\* replication.py 482-497: one round of _monitor_loop on a BACKUP
MonitorTick(r) ==
  /\ alive[r] /\ eowner[r] # "mon" /\ rstate[r] = BACKUP
  /\ IF hbRecent[r]
     THEN /\ missed[r] > 0
          /\ missed' = [missed EXCEPT ![r] = 0]
          /\ UNCHANGED <<rstate, sstate, strans, eowner, epc, nelect>>
     ELSE /\ missed' = [missed EXCEPT ![r] = Min(@ + 1, MaxMissed)]
          /\ IF missed[r] + 1 >= MaxMissed
             THEN LockFree(r) /\ StartElection(r, "mon")
             ELSE UNCHANGED <<rstate, sstate, strans, eowner, epc, nelect>>
  /\ UNCHANGED <<alive, rtrans, hbRecent, timerArmed, syncDue, netVars, storeVars, coreVars,
                 cliVars, limits, hist, layer>>

\* replication.py 208-212 and 250-254: the armed threading.Timer runs out and
\* its thread calls _start_election
TimerFire(r) ==
  /\ alive[r] /\ timerArmed[r] /\ LockFree(r)
  /\ timerArmed' = [timerArmed EXCEPT ![r] = FALSE]
  /\ StartElection(r, "timer")
  /\ UNCHANGED <<alive, rtrans, missed, hbRecent, syncDue, netVars, storeVars, coreVars,
                 cliVars, limits, hist, layer>>

\* replication.py 330-340: one round of _heartbeat_loop on a PRIMARY
Heartbeat(r) ==
  /\ alive[r] /\ rstate[r] = PRIMARY
  /\ nbeats > 0
  /\ nbeats' = nbeats - 1
  /\ outq' = [outq EXCEPT ![r] = Enqueued(@, ALL, Plain("HEARTBEAT"))]
  /\ UNCHANGED <<roleVars, monVars, elecVars, hpc, conn, backups, chan, storeVars, coreVars,
                 cliVars, nstops, nsyncs, clients, hist, layer>>

\* replication.py 298-322: one round of _sender_loop
Sender(r) ==
  /\ alive[r] /\ outq[r] # <<>>
  /\ outq' = [outq EXCEPT ![r] = Tail(@)]
  /\ chan' = IF Head(outq[r])[1] = ALL
             THEN WrittenAll(chan, r, conn[r], <<Head(outq[r])[2]>>)
             ELSE Written(chan, r, Head(outq[r])[1], <<Head(outq[r])[2]>>)
  /\ UNCHANGED <<roleVars, monVars, elecVars, hpc, conn, backups, storeVars, coreVars,
                 cliVars, limits, hist, layer>>

\* replication.py 499-508: one round of _monitor_loop on a PRIMARY whose last
\* sync is older than sync_interval: the monitor thread writes the three sync
\* frames on the socket of every connected backup
MonitorSync(r) ==
  /\ alive[r] /\ eowner[r] # "mon" /\ rstate[r] = PRIMARY
  /\ syncDue[r] /\ backups[r] # {}
  /\ chan' = WrittenAll(chan, r, backups[r] \cap conn[r], SyncFrames(r))
  /\ syncDue' = [syncDue EXCEPT ![r] = FALSE]
  /\ UNCHANGED <<roleVars, missed, hbRecent, timerArmed, elecVars, hpc, conn, backups, outq,
                 storeVars, coreVars, cliVars, limits, hist, layer>>

\* ------------------------------------------------------------- Chat Core
\* server.py 157, 175, 199: the replica serves clients when the stored role is
\* PRIMARY and ChatServer.transitioning is clear
Accepts(r) == sstate[r] = PRIMARY /\ ~strans[r]

\* ReplicationServer.broadcast_data_update (replication.py 452-462)
Broadcast(q, r, type, data) ==
  IF rstate[r] # PRIMARY THEN q
  ELSE Enqueued(q, ALL, Frame("DATA_UPDATE", type, data))

\* server.py 157-162: the notice written on a connection that is not served
Unavailable == Error("server_status", "Server unavailable, please try another server")

\* server.py 260-266: the main thread finds the stored role PRIMARY and blocks
\* in server.accept(); otherwise it sleeps and looks again
AcceptLoop(r) ==
  /\ alive[r] /\ ~accepting[r] /\ sstate[r] = PRIMARY
  /\ accepting' = [accepting EXCEPT ![r] = TRUE]
  /\ UNCHANGED <<roleVars, monVars, elecVars, netVars, storeVars, coreVars, csrv, sockOpen,
                 cpc, cuser, ncmds, wire, limits, hist, layer>>

\* server.py 266-269 and 157-168: accept returns a connection and the main
\* thread goes back to the test of the stored role; handle_client keeps the
\* connection if the replica serves, or writes the notice on it and closes it
ClientConnect(c, r) ==
  /\ c \in clients /\ csrv[c] = 0 /\ alive[r] /\ accepting[r]
  /\ accepting' = [accepting EXCEPT ![r] = sstate[r] = PRIMARY]
  /\ IF Accepts(r)
     THEN /\ csrv' = [csrv EXCEPT ![c] = r]
          /\ sockOpen' = [sockOpen EXCEPT ![c] = TRUE]
          /\ wire' = Drained(c)
     ELSE /\ wire' = [wire EXCEPT ![c] = <<Unavailable>>]
          /\ UNCHANGED <<csrv, sockOpen>>
  /\ UNCHANGED <<roleVars, monVars, elecVars, netVars, storeVars, coreVars, cpc, cuser, ncmds,
                 limits, hist, layer>>

\* current_users.pop(username)
Pop(cu, u) == IF u \in Users THEN [cu EXCEPT ![u] = NoConn] ELSE cu

\* server.py 227-231: the finally of handle_client pops the session of the last
\* src it read and closes the socket; a session that still holds this socket
\* holds a closed socket from now on. w: the client sockets as the handler
\* leaves them
HandlerExit(c, r, u, cu, w) ==
  /\ currentUsers' = [currentUsers EXCEPT ![r] =
        [v \in Users |-> IF Pop(cu, u)[v] = c THEN ClosedSock ELSE Pop(cu, u)[v]]]
  /\ csrv' = [csrv EXCEPT ![c] = 0]
  /\ UNCHANGED accepting
  /\ sockOpen' = [sockOpen EXCEPT ![c] = FALSE]
  /\ cpc' = [cpc EXCEPT ![c] = Idle]
  /\ cuser' = [cuser EXCEPT ![c] = ""]
  /\ wire' = w

\* server.py 175-185: the notice written before the loop breaks
NoLongerAvailable ==
  Error("server_status", "Server is no longer available, please reconnect")

\* server.py 220-224 and 173-187: the response `resp` is written and the loop
\* either blocks in recv again or breaks because the replica no longer serves
Finish(c, r, u, cu, w, resp) ==
  IF Accepts(r)
  THEN /\ currentUsers' = [currentUsers EXCEPT ![r] = cu]
       /\ cpc' = [cpc EXCEPT ![c] = Idle]
       /\ cuser' = [cuser EXCEPT ![c] = u]
       /\ wire' = Sent(w, c, <<resp>>)
       /\ UNCHANGED <<csrv, accepting, sockOpen>>
  ELSE HandlerExit(c, r, u, cu, Sent(w, c, <<resp, NoLongerAvailable>>))

\* server.py 187-196: handle_client reads a command from its socket
Reads(c) ==
  /\ csrv[c] # 0 /\ sockOpen[c] /\ cpc[c] = Idle
  /\ ncmds > 0
  /\ ncmds' = ncmds - 1

\* the handler is back from wait_for_acks in the command `k`
Acked(c, k) == csrv[c] # 0 /\ cpc[c].k = k

\* server.py 187-189 and 225-231: recv returns nothing or raises, the handler
\* leaves through finally
Disconnect(c) ==
  /\ csrv[c] # 0 /\ cpc[c] = Idle
  /\ HandlerExit(c, csrv[c], cuser[c], currentUsers[csrv[c]], wire)
  /\ UNCHANGED <<roleVars, monVars, elecVars, netVars, storeVars, usersMem, seen, ncmds,
                 limits, hist, layer>>

\* the commands of server.py 203-218
Cmds == {"create", "login", "logoff", "list", "send", "deliver", "delete", "delete_msgs"}

\* server.py 199-200: a command read while the replica does not serve is
\* answered with an error; the loop then breaks at 175-185
CmdRefused(c, src) ==
  /\ Reads(c) /\ ~Accepts(csrv[c])
  /\ \E cmd \in Cmds :
       HandlerExit(c, csrv[c], src, currentUsers[csrv[c]],
                   Sent(Drained(c), c,
                        <<Error(cmd, "Server is in transition, please try again later"),
                          NoLongerAvailable>>))
  /\ UNCHANGED <<roleVars, monVars, elecVars, netVars, storeVars, usersMem, seen, limits, hist, layer>>

\* server.py 187-205: a create is read while the replica serves and handed to
\* handle_create, whose first statement reads users.txt
CmdCreate(c, src, pw) ==
  /\ Reads(c) /\ Accepts(csrv[c])
  /\ cpc' = [cpc EXCEPT ![c] = [k |-> "creating", src |-> src, pw |-> pw]]
  /\ cuser' = [cuser EXCEPT ![c] = src]
  /\ wire' = Drained(c)
  /\ UNCHANGED <<roleVars, monVars, elecVars, netVars, storeVars, coreVars, csrv, accepting, sockOpen,
                 limits, hist, layer>>

\* ChatServer.handle_create up to wait_for_acks or, when the stored role is no
\* longer PRIMARY (line 296) and the broadcast and the wait are skipped, up to
\* the write of the reply
HandleCreate(c) ==
  LET r == csrv[c]
      src == cpc[c].src
      pw == cpc[c].pw
      bound == [currentUsers[r] EXCEPT ![src] = c] IN
  /\ Acked(c, "creating")
  /\ IF user_exists(usersFile[r], src)
     THEN /\ Finish(c, r, src, currentUsers[r], wire,
                    Error("create", "Username already exists"))
          /\ UNCHANGED <<usersFile, usersMem, outq>>
     ELSE /\ usersFile' = [usersFile EXCEPT ![r] = add_user(@, src, pw)]
          /\ usersMem' = [usersMem EXCEPT ![r][src] = pw]
          /\ currentUsers' = [currentUsers EXCEPT ![r] = bound]
          /\ outq' = IF sstate[r] = PRIMARY
                     THEN [outq EXCEPT ![r] =
                             Broadcast(@, r, "ADD_USER", [username |-> src, password |-> pw])]
                     ELSE outq
          /\ cpc' = [cpc EXCEPT ![c] = [k |-> "create", src |-> src]]
          /\ UNCHANGED <<csrv, accepting, sockOpen, cuser, wire>>
  /\ UNCHANGED <<roleVars, monVars, elecVars, hpc, conn, backups, chan, msgFile, nextId, seen,
                 ncmds, limits, hist, layer>>

\* server.py 318: the body of the login response
LoginBody(n) == "Login successful. You have " \o ToString(n) \o " unread messages."

\* ChatServer.handle_login; self.users[username] raises KeyError for a user of
\* users.txt that ChatServer.users does not hold, and the handler leaves
CmdLogin(c, src, pw) ==
  LET r == csrv[c]
      bad == Error("login", "Username/Password error") IN
  /\ Reads(c) /\ Accepts(r)
  /\ IF ~user_exists(usersFile[r], src) THEN Finish(c, r, src, currentUsers[r], Drained(c), bad)
     ELSE IF usersMem[r][src] = NoPw THEN HandlerExit(c, r, src, currentUsers[r], Drained(c))
     ELSE IF usersMem[r][src] # pw THEN Finish(c, r, src, currentUsers[r], Drained(c), bad)
     ELSE Finish(c, r, src, [currentUsers[r] EXCEPT ![src] = c], Drained(c),
                 ReplyTo("login", LoginBody(Len(msgFile[r][src])), src))
  /\ UNCHANGED <<roleVars, monVars, elecVars, netVars, storeVars, usersMem, seen, limits, hist, layer>>

\* ChatServer.handle_logoff: without a session of src the method reads the
\* unbound local `response`, the UnboundLocalError ends handle_client
CmdLogoff(c, src) ==
  LET r == csrv[c] IN
  /\ Reads(c) /\ Accepts(r)
  /\ IF currentUsers[r][src] # NoConn
     THEN Finish(c, r, src, Pop(currentUsers[r], src), Drained(c),
                 Reply("logoff", "Logged out successfully"))
     ELSE HandlerExit(c, r, src, currentUsers[r], Drained(c))
  /\ UNCHANGED <<roleVars, monVars, elecVars, netVars, storeVars, usersMem, seen, limits, hist, layer>>

\* a session of `to` is enough for the inline write, whatever its socket
SessionHeld(r, to) == currentUsers[r][to] # NoConn

\* client.send on the session socket of `to` goes through
Sendable(r, to) == currentUsers[r][to] \in Conns /\ sockOpen[currentUsers[r][to]]

\* ChatServer.handle_send up to wait_for_acks: the uuid4 draw of line 350 and
\* the broadcast; the local store is not touched yet
CmdSend(c, src, to, body) ==
  LET r == csrv[c] IN
  /\ Reads(c) /\ Accepts(r)
  /\ IF body = "" \/ to = ""
     THEN /\ Finish(c, r, src, currentUsers[r], Drained(c),
                    Error("send", "Message content and recipient are required"))
          /\ UNCHANGED <<outq, nextId>>
     ELSE IF ~user_exists(usersFile[r], to)
     THEN /\ Finish(c, r, src, currentUsers[r], Drained(c), Error("send", "Recipient not found"))
          /\ UNCHANGED <<outq, nextId>>
     ELSE /\ nextId <= MaxId
          /\ nextId' = nextId + 1
          /\ outq' = [outq EXCEPT ![r] =
                Broadcast(@, r, "ADD_MESSAGE",
                          [to |-> to, from |-> src, content |-> body, msg_id |-> nextId])]
          /\ cpc' = [cpc EXCEPT ![c] =
                [k |-> "send", src |-> src, to |-> to, body |-> body, msg_id |-> nextId]]
          /\ cuser' = [cuser EXCEPT ![c] = src]
          /\ wire' = Drained(c)
          /\ UNCHANGED <<csrv, accepting, sockOpen, currentUsers>>
  /\ UNCHANGED <<roleVars, monVars, elecVars, hpc, conn, backups, chan, usersFile, msgFile,
                 usersMem, seen, limits, hist, layer>>

\* server.py 370-389: after wait_for_acks the message is written to the
\* recipient's session socket, or stored under a second uuid4 draw
SendAcked(c) ==
  LET r == csrv[c]
      m == cpc[c]
      ok == Reply("send", "Message sent successfully") IN
  /\ Acked(c, "send")
  /\ IF Sendable(r, m.to)
     THEN /\ UNCHANGED <<msgFile, nextId>>
          /\ Finish(c, r, m.src, currentUsers[r],
                    Sent(wire, currentUsers[r][m.to], <<Deliver(m.msg_id, m.src, m.body)>>), ok)
     ELSE /\ nextId <= MaxId
          /\ msgFile' = [msgFile EXCEPT ![r] = add_message(@, m.to, m.src, m.body, nextId)]
          /\ nextId' = nextId + 1
          /\ Finish(c, r, m.src, currentUsers[r], wire, ok)
  /\ UNCHANGED <<roleVars, monVars, elecVars, netVars, usersFile, usersMem, seen, ncmds,
                 limits, hist, layer>>

\* server.py 423-428: the messages whose id is not in client_seen_messages
Unseen(r, u) ==
  FilterSeq(msgFile[r][u],
            {m \in {msgFile[r][u][i] : i \in 1..Len(msgFile[r][u])} : MsgId(m) \notin seen[r][u]})

\* server.py 434-435
ToSend(r, u, limit) ==
  IF limit > 0 THEN SubSeq(Unseen(r, u), 1, Min(limit, Len(Unseen(r, u)))) ELSE Unseen(r, u)

\* server.py 438-442: one deliver frame for each message, in the order of the list
Frames(q) == [i \in 1..Len(q) |-> Deliver(MsgId(q[i]), MsgSender(q[i]), MsgBody(q[i]))]

\* server.py 471: the body of the terminal deliver response
Delivered(n) == "Delivered " \o ToString(n) \o " messages"

\* a deliver that removes what it emits, whatever its limit
PopsAlways(limit) == TRUE

\* server.py 446: only a deliver with a positive limit removes what it emits
Pops(limit) == limit > 0

\* server.py 450: the body of the reply when the role changed under the deliver
Preserved(n) ==
  "Delivered " \o ToString(n) \o " messages, but server state changed - messages preserved"

\* ChatServer.handle_deliver up to the last client.send of line 442; with a
\* positive limit and nothing to emit, lines 446-471 only build the reply
CmdDeliver(c, src, limit) ==
  LET r == csrv[c]
      out == ToSend(r, src, limit)
      ids == IdsOf(out)
      emitted == Sent(Drained(c), c, Frames(out)) IN
  /\ Reads(c) /\ Accepts(r)
  /\ IF ~user_exists(usersFile[r], src)
     THEN /\ Finish(c, r, src, currentUsers[r], Drained(c), Error("deliver", "User not found"))
          /\ UNCHANGED <<seen, outq>>
     ELSE IF ~Pops(limit)
     THEN /\ seen' = [seen EXCEPT ![r][src] = @ \cup IdsOf(Unseen(r, src))]
          /\ Finish(c, r, src, currentUsers[r], emitted, Reply("deliver", Delivered(Len(out))))
          /\ UNCHANGED outq
     ELSE IF ids = {}
     THEN /\ Finish(c, r, src, currentUsers[r], emitted, Reply("deliver", Delivered(Len(out))))
          /\ UNCHANGED <<seen, outq>>
     ELSE /\ cpc' = [cpc EXCEPT ![c] =
                [k |-> "emitted", src |-> src, msg_ids |-> ids, n |-> Len(out)]]
          /\ cuser' = [cuser EXCEPT ![c] = src]
          /\ wire' = emitted
          /\ UNCHANGED <<csrv, accepting, sockOpen, currentUsers, seen, outq>>
  /\ UNCHANGED <<roleVars, monVars, elecVars, hpc, conn, backups, chan, storeVars, usersMem,
                 limits, hist, layer>>

\* server.py 446-465: after the frames are out, the role and the flag are read
\* again; the deliver either replies that the messages were preserved, or
\* records the ids as seen, broadcasts DELETE_MESSAGES and waits
DeliverChecked(c) ==
  LET r == csrv[c]
      m == cpc[c] IN
  /\ Acked(c, "emitted")
  /\ IF ~Accepts(r)
     THEN /\ Finish(c, r, m.src, currentUsers[r], wire, Reply("deliver", Preserved(m.n)))
          /\ UNCHANGED <<seen, outq>>
     ELSE /\ seen' = [seen EXCEPT ![r][m.src] = @ \cup m.msg_ids]
          /\ outq' = [outq EXCEPT ![r] =
                Broadcast(@, r, "DELETE_MESSAGES", [username |-> m.src, msg_ids |-> m.msg_ids])]
          /\ cpc' = [cpc EXCEPT ![c] = [m EXCEPT !.k = "deliver"]]
          /\ UNCHANGED <<csrv, accepting, sockOpen, currentUsers, cuser, wire>>
  /\ UNCHANGED <<roleVars, monVars, elecVars, hpc, conn, backups, chan, storeVars, usersMem,
                 ncmds, limits, hist, layer>>

\* server.py 467-471: after wait_for_acks the local copies are deleted
DeliverAcked(c) ==
  LET r == csrv[c]
      m == cpc[c] IN
  /\ Acked(c, "deliver")
  /\ msgFile' = [msgFile EXCEPT ![r] = delete_messages(@, m.src, m.msg_ids)]
  /\ Finish(c, r, m.src, currentUsers[r], wire, Reply("deliver", Delivered(m.n)))
  /\ UNCHANGED <<roleVars, monVars, elecVars, netVars, usersFile, nextId, usersMem, seen,
                 ncmds, limits, hist, layer>>

\* ChatServer.handle_delete_messages up to wait_for_acks
CmdDeleteMsgs(c, src, ids) ==
  LET r == csrv[c] IN
  /\ Reads(c) /\ Accepts(r)
  /\ ids \subseteq 1..(nextId - 1)
  /\ IF ids = {}
     THEN /\ Finish(c, r, src, currentUsers[r], Drained(c),
                    Error("delete_msgs", "No message IDs provided"))
          /\ UNCHANGED outq
     ELSE /\ outq' = [outq EXCEPT ![r] =
                Broadcast(@, r, "DELETE_MESSAGES", [username |-> src, msg_ids |-> ids])]
          /\ cpc' = [cpc EXCEPT ![c] = [k |-> "delete_msgs", src |-> src, msg_ids |-> ids]]
          /\ cuser' = [cuser EXCEPT ![c] = src]
          /\ wire' = Drained(c)
          /\ UNCHANGED <<csrv, accepting, sockOpen, currentUsers>>
  /\ UNCHANGED <<roleVars, monVars, elecVars, hpc, conn, backups, chan, storeVars, usersMem,
                 seen, limits, hist, layer>>

\* server.py 494-501: the final check, then the local deletion
DeleteMsgsAcked(c) ==
  LET r == csrv[c]
      m == cpc[c] IN
  /\ Acked(c, "delete_msgs")
  /\ msgFile' = [msgFile EXCEPT ![r] =
        IF Accepts(r) THEN delete_messages(@, m.src, m.msg_ids) ELSE @]
  /\ Finish(c, r, m.src, currentUsers[r], wire,
            IF Accepts(r)
            THEN Reply("delete_msgs", "Messages deleted successfully")
            ELSE Error("delete_msgs", "Server state changed during processing, messages preserved"))
  /\ UNCHANGED <<roleVars, monVars, elecVars, netVars, usersFile, nextId, usersMem, seen,
                 ncmds, limits, hist, layer>>

\* ChatServer.handle_delete up to wait_for_acks
CmdDelete(c, src) ==
  LET r == csrv[c] IN
  /\ Reads(c) /\ Accepts(r)
  /\ IF ~user_exists(usersFile[r], src)
     THEN /\ Finish(c, r, src, currentUsers[r], Drained(c), Error("delete", "User does not exist"))
          /\ UNCHANGED <<usersFile, msgFile, usersMem, outq>>
     ELSE /\ usersFile' = [usersFile EXCEPT ![r] = delete_user_users(@, src)]
          /\ msgFile' = [msgFile EXCEPT ![r] = delete_user_msgs(usersFile[r], @, src)]
          /\ usersMem' = [usersMem EXCEPT ![r][src] = NoPw]
          /\ currentUsers' = [currentUsers EXCEPT ![r] = Pop(@, src)]
          /\ outq' = [outq EXCEPT ![r] = Broadcast(@, r, "DELETE_USER", [username |-> src])]
          /\ cpc' = [cpc EXCEPT ![c] = [k |-> "delete", src |-> src]]
          /\ cuser' = [cuser EXCEPT ![c] = src]
          /\ wire' = Drained(c)
          /\ UNCHANGED <<csrv, accepting, sockOpen>>
  /\ UNCHANGED <<roleVars, monVars, elecVars, hpc, conn, backups, chan, nextId, seen, limits,
                 hist, layer>>

\* server.py 302-305 and 530-534: back from wait_for_acks, handle_create and
\* handle_delete only build their response
ReplyAcked(c) ==
  /\ csrv[c] # 0 /\ cpc[c].k \in {"create", "delete"}
  /\ Finish(c, csrv[c], cpc[c].src, currentUsers[csrv[c]], wire,
            IF cpc[c].k = "create" THEN ReplyTo("create", "Account created", cpc[c].src)
            ELSE Reply("delete", "Account deleted"))
  /\ UNCHANGED <<roleVars, monVars, elecVars, netVars, storeVars, usersMem, seen, ncmds,
                 limits, hist, layer>>

\* ------------------------------------------------------- process lifecycle
\* The replica's process is terminated: its threads and in-memory state are
\* gone, its files stay, and every peer reads end-of-file after the frames
\* already written to it.
Stop(r) ==
  /\ alive[r] /\ nstops > 0
  /\ nstops' = nstops - 1
  /\ alive' = [alive EXCEPT ![r] = FALSE]
  /\ rstate' = [rstate EXCEPT ![r] = BACKUP]
  /\ rtrans' = [rtrans EXCEPT ![r] = FALSE]
  /\ strans' = [strans EXCEPT ![r] = FALSE]
  /\ missed' = [missed EXCEPT ![r] = 0]
  /\ hbRecent' = [hbRecent EXCEPT ![r] = TRUE]
  /\ timerArmed' = [timerArmed EXCEPT ![r] = FALSE]
  /\ syncDue' = [syncDue EXCEPT ![r] = TRUE]
  /\ eowner' = [eowner EXCEPT ![r] = "none"]
  /\ epc' = [epc EXCEPT ![r] = "idle"]
  /\ hpc' = [hpc EXCEPT ![r] = [p \in Replicas |-> "closed"]]
  /\ conn' = [conn EXCEPT ![r] = {}]
  /\ backups' = [backups EXCEPT ![r] = {}]
  /\ outq' = [outq EXCEPT ![r] = <<>>]
  /\ chan' = [p \in Replicas |-> [q \in Replicas |->
                IF q = r THEN <<>>
                ELSE IF p = r
                     THEN (IF alive[q] /\ r \in conn[q] THEN Append(chan[r][q], EOF) ELSE <<>>)
                     ELSE chan[p][q]]]
  /\ usersMem' = [usersMem EXCEPT ![r] = NoUsers]
  /\ currentUsers' = [currentUsers EXCEPT ![r] = [u \in Users |-> NoConn]]
  /\ seen' = [seen EXCEPT ![r] = [u \in Users |-> {}]]
  /\ csrv' = [c \in Conns |-> IF csrv[c] = r THEN 0 ELSE csrv[c]]
  /\ accepting' = [accepting EXCEPT ![r] = FALSE]
  /\ sockOpen' = [c \in Conns |-> IF csrv[c] = r THEN FALSE ELSE sockOpen[c]]
  /\ cpc' = [c \in Conns |-> IF csrv[c] = r THEN Idle ELSE cpc[c]]
  /\ cuser' = [c \in Conns |-> IF csrv[c] = r THEN "" ELSE cuser[c]]
  /\ UNCHANGED layer
  /\ hist' = [hist EXCEPT !.lostUpdate =
                 @ \/ \E i \in 1..Len(outq[r]) : outq[r][i][2].cmd = "DATA_UPDATE"]
  /\ UNCHANGED <<sstate, nelect, nbeats, nsyncs, storeVars, clients, ncmds, wire>>

\* ------------------------------------------------------------------- Init
\* ReplicationClient.__init__: not connected, no socket, the first server of
\* the list, nothing queued; recent stands for
\* time.time() - last_reconnect_attempt < reconnect_backoff
NoSocket == 0
\* the first reconnect_backoff and max_reconnect_backoff, in seconds
first_reconnect_backoff == 1
max_reconnect_backoff == 30
NewClient ==
  [connected |-> FALSE, socket |-> NoSocket, current_server_idx |-> 1,
   message_queue |-> <<>>, recent |-> FALSE, reconnect_backoff |-> first_reconnect_backoff]

\* the surroundings of a client program that has sent nothing: listening are
\* the servers whose port takes a TCP connection, broken says that a write on
\* the client's socket raises, inbox holds the frames receive_msg returned and
\* handle_msg has not yet seen (root.after), written lists the requests
\* written on a socket, submitted counts the send_msg calls, ret is the value
\* the last one returned, failed the request whose write failed in the last
\* flush, faults and frames count the failures and the server frames of the run
\* the threads of a replica that call its Storage: a handle_client thread, the
\* _handle_peer thread that applies a DATA_UPDATE through on_data_update, and the
\* _handle_peer thread that applies a SYNC_DATA
Threads == {"handler", "update", "sync"}
\* server.py 47: ChatServer.storage, used by the handlers and by
\* _handle_data_update; replication.py 583: the Storage that _handle_sync_data
\* builds for itself on the same data_dir
StorageOf(t) == IF t = "sync" THEN "own" ELSE "server"
Storages == {StorageOf(t) : t \in Threads}
NoCall == [op |-> "none", user |-> "", ids |-> {}, id |-> 0]
\* no Storage call is in progress: every Storage.lock is free
NoCalls ==
  [lock |-> [i \in Storages |-> "none"],
   call |-> [t \in Threads |-> NoCall],
   local |-> [t \in Threads |-> [uf |-> NoUsers, mf |-> NoMsgs]],
   done |-> {}, calls |-> 0]
\* msg_ids of a Message: None, or a list
None == [is_none |-> TRUE, items |-> <<>>]
List(q) == [is_none |-> FALSE, items |-> q]
NoMessage ==
  [cmd |-> <<>>, src |-> <<>>, to |-> <<>>, body |-> <<>>, error |-> FALSE,
   msg_ids |-> None, limit |-> 0]
NoCodec ==
  [pc |-> "idle", protocol |-> "none", message |-> NoMessage,
   dict |-> [NoMessage EXCEPT !.msg_ids = <<>>], data |-> <<>>, decoded |-> NoMessage]
\* the threads that write on the socket of one session: the handle_client
\* thread that owns it (server.py 220-224), the handler of another client that
\* delivers inline to it (371-378), and the thread that runs
\* _handle_state_change (88-101)
Writers == {"owner", "inline", "notice"}
\* nothing has been written on the socket and no writer is inside a frame
NoWrites ==
  [stream |-> <<>>, writing |-> [t \in Writers |-> 0], frames |-> 0, closed |-> FALSE]
AtRest == sto = NoCalls /\ codec = NoCodec /\ csock = NoWrites

NoTraffic ==
  [listening |-> {}, broken |-> FALSE, inbox |-> <<>>, written |-> <<>>,
   submitted |-> 0, ret |-> "none", failed |-> 0, faults |-> 0, frames |-> 0]

NoHist ==
  [ \* the replica won an election with a peer connected and has not yet applied
    \* the SYNC_DATA{MESSAGES} it asked for
    syncWanted |-> [r \in Replicas |-> FALSE],
    \* a DATA_UPDATE was discarded by a transitioning receiver or died in the
    \* outbound queue of a stopped replica
    lostUpdate |-> FALSE ]

\* The replicas of `up` have been constructed and started one after the other
\* (test_persistence_fault_tolerance.py 136-144), replica 1 with --primary
\* (server.py 571-572), and every pair of them is linked: ReplicationServer
\* .__init__ leaves state = "BACKUP" on all of them.
ClusterStarted(up, elections, beats, cl, cmds) ==
  /\ alive = [r \in Replicas |-> r \in up]
  /\ rstate = [r \in Replicas |-> BACKUP]
  /\ sstate = [r \in Replicas |-> IF r = 1 THEN PRIMARY ELSE BACKUP]
  /\ rtrans = [r \in Replicas |-> FALSE]
  /\ strans = [r \in Replicas |-> FALSE]
  /\ missed = [r \in Replicas |-> 0]
  /\ hbRecent = [r \in Replicas |-> TRUE]
  /\ timerArmed = [r \in Replicas |-> FALSE]
  /\ syncDue = [r \in Replicas |-> TRUE]
  /\ eowner = [r \in Replicas |-> "none"]
  /\ epc = [r \in Replicas |-> "idle"]
  /\ hpc = [r \in Replicas |-> [p \in Replicas |->
              IF r \in up /\ p \in up /\ p # r THEN "recv" ELSE "closed"]]
  /\ conn = [r \in Replicas |-> IF r \in up THEN up \ {r} ELSE {}]
  /\ backups = [r \in Replicas |-> {}]
  /\ chan = [p \in Replicas |-> [r \in Replicas |-> <<>>]]
  /\ outq = [r \in Replicas |-> <<>>]
  /\ currentUsers = [r \in Replicas |-> [u \in Users |-> NoConn]]
  /\ seen = [r \in Replicas |-> [u \in Users |-> {}]]
  /\ clients = cl
  /\ csrv = [c \in Conns |-> 0]
  /\ sockOpen = [c \in Conns |-> FALSE]
  /\ cpc = [c \in Conns |-> Idle]
  /\ cuser = [c \in Conns |-> ""]
  /\ wire = [c \in Conns |-> <<>>]
  /\ accepting = [r \in Replicas |-> r \in up /\ r = 1]
  /\ nelect = elections
  /\ nbeats = beats
  /\ ncmds = cmds
  /\ nstops = 0
  /\ nsyncs = 0
  /\ hist = NoHist
  /\ repl_client = NewClient /\ cenv = NoTraffic /\ AtRest

\* the cluster at its first start: the data directories are empty
InitCluster(up, elections, beats, cl, cmds) ==
  /\ ClusterStarted(up, elections, beats, cl, cmds)
  /\ usersFile = [r \in Replicas |-> NoUsers]
  /\ msgFile = [r \in Replicas |-> NoMsgs]
  /\ usersMem = [r \in Replicas |-> NoUsers]
  /\ nextId = 1

\* ------------------------------------------------- the election on its own
\* Replicas 1 and 2 of the cluster are up, replica 3 has not been started; no
\* client connects and no process is stopped.
InitElection == InitCluster({1, 2}, MaxElections, MaxBeats, {}, 0)

NextElection ==
  \/ \E r \in Replicas : AcceptLoop(r)
  \/ TimePasses
  \/ \E r \in Replicas : MonitorTick(r)
  \/ \E r \in Replicas : TimerFire(r)
  \/ \E r \in Replicas : Heartbeat(r)
  \/ \E r \in Replicas : Sender(r)
  \/ \E r \in Replicas : ElectionAnnounce(r)
  \/ \E r \in Replicas : ElectionWaitOver(r)
  \/ \E r \in Replicas : BecomePrimaryAnnounce(r)
  \/ \E r \in Replicas : BecomePrimaryDone(r)
  \/ \E r \in Replicas, p \in Replicas : RecvDropped(r, p)
  \/ \E r \in Replicas, p \in Replicas : RecvHeartbeat(r, p)
  \/ \E r \in Replicas, p \in Replicas : RecvStateChange(r, p)
  \/ \E r \in Replicas, p \in Replicas : RecvElection(r, p)
  \/ \E r \in Replicas, p \in Replicas : HandlerLockAcquired(r, p)
  \/ \E r \in Replicas, p \in Replicas : RecvElected(r, p)
  \/ \E r \in Replicas, p \in Replicas : BecomeBackupDone(r, p)
  \/ \E r \in Replicas, p \in Replicas : RecvIgnored(r, p)
  \/ \E r \in Replicas, p \in Replicas : RecvSyncRequest(r, p)
  \/ \E r \in Replicas, p \in Replicas : RecvSyncData(r, p)
  \/ \E r \in Replicas, p \in Replicas : RecvSyncComplete(r, p)

SpecElection == InitElection /\ [][NextElection]_vars

\* C1: at every instant at most one running replica of the cluster has the role
\* PRIMARY.
C1_AtMostOnePrimary ==
  \A r \in Replicas, p \in Replicas :
    (alive[r] /\ alive[p] /\ rstate[r] = PRIMARY /\ rstate[p] = PRIMARY) => r = p

\* C2: a PRIMARY is made to step down only by a peer of higher identity, so that
\* of two PRIMARYs the one with the higher identity stays PRIMARY.
C2_HigherIdentityWins ==
  \A r \in Replicas, p \in Replicas :
    (alive[r] /\ hpc[r][p] \in {"stepdown", "stepdown_sc"}) => p > r

\* ------------------------------------------------ what a step does
\* the handle_client thread of connection c takes a step
HandlerStep(c) == csrv[c] # 0 /\ cpc'[c] # cpc[c]

\* the step leaves users.txt and the message files of replica r as they are
StoreKept(r) == usersFile'[r] = usersFile[r] /\ msgFile'[r] = msgFile[r]

\* the step puts a DATA_UPDATE on the outgoing_queue of replica r
UpdateEnqueued(r) ==
  /\ Len(outq'[r]) = Len(outq[r]) + 1
  /\ outq'[r][Len(outq'[r])][2].cmd = "DATA_UPDATE"

\* the DATA_UPDATE type of the command a handler is waiting for acks in
UpdateType(k) ==
  CASE k = "create" -> "ADD_USER"
    [] k = "send" -> "ADD_MESSAGE"
    [] k = "delete" -> "DELETE_USER"
    [] OTHER -> "DELETE_MESSAGES"

\* replica b has taken over: it is PRIMARY, its transition is complete and it
\* serves clients
TookOver(b) == alive[b] /\ rstate[b] = PRIMARY /\ ~rtrans[b] /\ Accepts(b)

\* ------------------------------------------------ the settled cluster
\* A state SpecElection reaches: replica 1 won an election, replica 2 won the
\* next one, replica 1 stepped down on its ELECTED, both syncs were answered and
\* every queue has drained.  Replica 2 is PRIMARY with replica 1 as its backup.
SettledCluster ==
  /\ alive = <<TRUE, TRUE, FALSE>>
  /\ rstate = <<BACKUP, PRIMARY, BACKUP>>
  /\ sstate = <<BACKUP, PRIMARY, BACKUP>>
  /\ rtrans = <<FALSE, FALSE, FALSE>>
  /\ strans = <<FALSE, FALSE, FALSE>>
  /\ missed = <<0, MaxMissed, 0>>
  /\ hbRecent = <<TRUE, FALSE, TRUE>>
  /\ timerArmed = <<TRUE, FALSE, FALSE>>
  /\ syncDue = <<FALSE, FALSE, TRUE>>
  /\ eowner = <<"none", "none", "none">>
  /\ epc = <<"idle", "idle", "idle">>
  /\ hpc = << <<"closed", "recv", "closed">>,
              <<"recv", "closed", "closed">>,
              <<"closed", "closed", "closed">> >>
  /\ conn = <<{2}, {1}, {}>>
  /\ backups = <<{2}, {1}, {}>>
  /\ chan = [p \in Replicas |-> [r \in Replicas |-> <<>>]]
  /\ outq = [r \in Replicas |-> <<>>]
  /\ currentUsers = [r \in Replicas |-> [u \in Users |-> NoConn]]
  /\ seen = [r \in Replicas |-> [u \in Users |-> {}]]
  /\ csrv = [c \in Conns |-> 0]
  /\ sockOpen = [c \in Conns |-> FALSE]
  /\ cpc = [c \in Conns |-> Idle]
  /\ cuser = [c \in Conns |-> ""]
  /\ wire = [c \in Conns |-> <<>>]
  /\ accepting = <<TRUE, TRUE, FALSE>>
  /\ hist = NoHist

\* the settled cluster with no client program started
SettledPeers ==
  /\ SettledCluster
  /\ repl_client = NewClient /\ cenv = NoTraffic /\ AtRest

\* the PRIMARY of the settled cluster
SettledPrimary == 2

\* the settled cluster before its first client: the stores are empty
Settled ==
  /\ SettledPeers
  /\ usersFile = [r \in Replicas |-> NoUsers]
  /\ msgFile = [r \in Replicas |-> NoMsgs]
  /\ usersMem = [r \in Replicas |-> NoUsers]
  /\ nextId = 1

\* ------------------------------------------------ replication in service
\* The settled cluster serves one client program; heartbeats keep the backup
\* quiet, so no election starts and no process stops.
InitService ==
  /\ Settled
  /\ nelect = 0 /\ nbeats = 0 /\ nstops = 0
  /\ nsyncs = MaxSyncs
  /\ ncmds = MaxCmds
  /\ clients = {1}

NextService ==
  \/ \E r \in Replicas : Sender(r)
  \/ \E r \in Replicas : SyncTimePasses(r)
  \/ \E r \in Replicas : MonitorSync(r)
  \/ \E r \in Replicas, p \in Replicas : RecvDataUpdate(r, p)
  \/ \E r \in Replicas, p \in Replicas : RecvSyncData(r, p)
  \/ \E r \in Replicas, p \in Replicas : RecvSyncComplete(r, p)
  \/ \E c \in Conns, r \in Replicas : ClientConnect(c, r)
  \/ \E c \in Conns : Disconnect(c)
  \/ \E c \in Conns, u \in Users, pw \in Passwords : CmdCreate(c, u, pw)
  \/ \E c \in Conns : HandleCreate(c)
  \/ \E c \in Conns, u \in Users, pw \in Passwords : CmdLogin(c, u, pw)
  \/ \E c \in Conns, u \in Users, to \in Users, b \in Bodies : CmdSend(c, u, to, b)
  \/ \E c \in Conns, u \in Users, limit \in Limits : CmdDeliver(c, u, limit)
  \/ \E c \in Conns : DeliverChecked(c)
  \/ \E c \in Conns, u \in Users, i \in 1..MaxId : CmdDeleteMsgs(c, u, {i})
  \/ \E c \in Conns, u \in Users : CmdDelete(c, u)
  \/ \E c \in Conns : SendAcked(c)
  \/ \E c \in Conns : DeliverAcked(c)
  \/ \E c \in Conns : DeleteMsgsAcked(c)
  \/ \E c \in Conns : ReplyAcked(c)

SpecService == InitService /\ [][NextService]_vars

\* every DATA_UPDATE that PRIMARY p produced has been applied by backup b: no
\* handler of p is inside a command, nothing waits in p's queue or on the link,
\* and none was lost
Replicated(p, b) ==
  /\ alive[p] /\ rstate[p] = PRIMARY
  /\ alive[b] /\ rstate[b] = BACKUP /\ b \in conn[p]
  /\ \A c \in Conns : csrv[c] = p => cpc[c] = Idle
  /\ outq[p] = <<>> /\ chan[p][b] = <<>>
  /\ ~hist.lostUpdate

\* C5: once every DATA_UPDATE of the PRIMARY has been applied by a connected
\* BACKUP, the BACKUP's store holds the PRIMARY's user table and queues.
C5_BackupMirrorsPrimary ==
  \A p \in Replicas, b \in Replicas :
    Replicated(p, b) => (usersFile[b] = usersFile[p] /\ msgFile[b] = msgFile[p])

\* the store (uf, mf) of replica r reflects the mutation of DATA_UPDATE frame f;
\* a message written to the recipient's session socket is never stored
Reflected(uf, mf, r, f) ==
  CASE f.type = "ADD_USER" -> uf[f.data.username] = f.data.password
    [] f.type = "DELETE_USER" -> ~user_exists(uf, f.data.username)
    [] f.type = "ADD_MESSAGE" ->
         \/ Sendable(r, f.data.to)
         \/ \E i \in 1..Len(mf[f.data.to]) :
               /\ MsgSender(mf[f.data.to][i]) = f.data.from
               /\ MsgBody(mf[f.data.to][i]) = f.data.content
    [] f.type = "DELETE_MESSAGES" -> IdsOf(mf[f.data.username]) \cap f.data.msg_ids = {}
    [] OTHER -> TRUE

\* C8: when a DATA_UPDATE is put on the outbound queue, the store of the
\* replica already reflects the mutation it carries.
C8_UpdateAfterLocalApply ==
  [][\A r \in Replicas :
       UpdateEnqueued(r) =>
         Reflected(usersFile'[r], msgFile'[r], r, outq'[r][Len(outq'[r])][2])]_vars

\* the store after HandleSyncData has applied frame f to the data S of replica r
Synced(S, r, f) == HandleSyncData(S, r, f.type, f.data)

\* C10: applying a SYNC_DATA frame a second time leaves the user table and
\* every queue as the first application left them.
C10_SyncIdempotent ==
  \A r \in Replicas, p \in Replicas :
    (CanRecv(r, p) /\ Head(chan[p][r]).cmd = "SYNC_DATA") =>
      LET once == Synced(Data(r), r, Head(chan[p][r]))
          twice == Synced(once, r, Head(chan[p][r]))
      IN twice.uf = once.uf /\ twice.mf = once.mf

\* ------------------------------------------------------------- failover
\* the election budget of a failover, the commands read and the processes stopped
FailoverElections == 1
FailoverCmds == 2
FailoverStops == 1

\* no running replica is PRIMARY: nobody emits HEARTBEAT
NoPrimaryRuns == \A r \in Replicas : alive[r] => rstate[r] # PRIMARY

\* While a PRIMARY runs, its heartbeats arrive in time (replication.py 330-340:
\* one every heartbeat_interval); the monitors and election timers of the
\* backups see time run out only once no PRIMARY runs.
SilenceNoticed == NoPrimaryRuns /\ TimePasses
SilentTimerFire(r) == NoPrimaryRuns /\ TimerFire(r)

\* The settled cluster serves one client program; one process may be stopped
\* and one election may be started.
InitFailover ==
  /\ Settled
  /\ nelect = FailoverElections /\ nbeats = 0 /\ nstops = FailoverStops
  /\ nsyncs = 0
  /\ ncmds = FailoverCmds
  /\ clients = {1}

NextFailover ==
  \/ \E r \in Replicas : AcceptLoop(r)
  \/ \E r \in Replicas : Stop(r)
  \/ SilenceNoticed
  \/ \E r \in Replicas : MonitorTick(r)
  \/ \E r \in Replicas : SilentTimerFire(r)
  \/ \E r \in Replicas : ElectionAnnounce(r)
  \/ \E r \in Replicas : ElectionWaitOver(r)
  \/ \E r \in Replicas : BecomePrimaryAnnounce(r)
  \/ \E r \in Replicas : BecomePrimaryDone(r)
  \/ \E r \in Replicas : Sender(r)
  \/ \E r \in Replicas, p \in Replicas : RecvEOF(r, p)
  \/ \E r \in Replicas, p \in Replicas : RecvDropped(r, p)
  \/ \E r \in Replicas, p \in Replicas : RecvDataUpdate(r, p)
  \/ \E c \in Conns, r \in Replicas : ClientConnect(c, r)
  \/ \E c \in Conns : Disconnect(c)
  \/ \E c \in Conns, u \in Users, pw \in Passwords : CmdCreate(c, u, pw)
  \/ \E c \in Conns : HandleCreate(c)
  \/ \E c \in Conns, u \in Users, pw \in Passwords : CmdLogin(c, u, pw)
  \/ \E c \in Conns, u \in Users, to \in Users, b \in Bodies : CmdSend(c, u, to, b)
  \/ \E c \in Conns, u \in Users, limit \in Limits : CmdDeliver(c, u, limit)
  \/ \E c \in Conns : SendAcked(c)
  \/ \E c \in Conns : ReplyAcked(c)

SpecFailover == InitFailover /\ [][NextFailover]_vars

\* handle_login on replica r answers "Login successful" for (u, pw)
LoginOk(r, u, pw) == user_exists(usersFile[r], u) /\ usersMem[r][u] = pw

\* handle_deliver with limit 0 on replica r emits a message from `from` with
\* body `body` to user u
Peeked(r, u, from, body) ==
  \E i \in 1..Len(Unseen(r, u)) :
    MsgSender(Unseen(r, u)[i]) = from /\ MsgBody(Unseen(r, u)[i]) = body

\* C6: when the PRIMARY p has stopped after all its DATA_UPDATEs were applied by
\* the BACKUP b and b has taken over, every user of p who holds a queued
\* message can log in on b, and a peek on b returns that message.
C6_FailoverKeepsMessage ==
  \A p \in Replicas, b \in Replicas, u \in Users :
    ( /\ ~alive[p] /\ TookOver(b)
      /\ chan[p][b] = <<>> /\ ~hist.lostUpdate
      /\ user_exists(usersFile[p], u) /\ msgFile[p][u] # <<>> )
    => /\ LoginOk(b, u, usersFile[p][u])
       /\ \A i \in 1..Len(msgFile[p][u]) :
            Peeked(b, u, MsgSender(msgFile[p][u][i]), MsgBody(msgFile[p][u][i]))

\* ------------------------------------------------------------- recovery
\* the elections that may be started and the processes stopped in a recovery
RecoveryElections == 2
RecoveryStops == 1

\* A state the election reaches with the three replicas up: replica 3 timed out
\* first and won, replicas 1 and 2 acknowledged, replica 3 synced from replica 1
\* and sent its first heartbeat.  Replica 1 still stores the --primary role.
Settled3 ==
  /\ alive = <<TRUE, TRUE, TRUE>>
  /\ rstate = <<BACKUP, BACKUP, PRIMARY>>
  /\ sstate = <<PRIMARY, BACKUP, PRIMARY>>
  /\ rtrans = <<FALSE, FALSE, FALSE>>
  /\ strans = <<FALSE, FALSE, FALSE>>
  /\ missed = <<0, 0, MaxMissed>>
  /\ hbRecent = <<TRUE, TRUE, FALSE>>
  /\ timerArmed = <<TRUE, TRUE, FALSE>>
  /\ syncDue = <<TRUE, TRUE, FALSE>>
  /\ eowner = <<"none", "none", "none">>
  /\ epc = <<"idle", "idle", "idle">>
  /\ hpc = [r \in Replicas |-> [p \in Replicas |-> IF p = r THEN "closed" ELSE "recv"]]
  /\ conn = [r \in Replicas |-> Peers(r)]
  /\ backups = <<{}, {}, {1, 2}>>
  /\ chan = [p \in Replicas |-> [r \in Replicas |-> <<>>]]
  /\ outq = [r \in Replicas |-> <<>>]
  /\ usersFile = [r \in Replicas |-> NoUsers]
  /\ msgFile = [r \in Replicas |-> NoMsgs]
  /\ usersMem = [r \in Replicas |-> NoUsers]
  /\ currentUsers = [r \in Replicas |-> [u \in Users |-> NoConn]]
  /\ seen = [r \in Replicas |-> [u \in Users |-> {}]]
  /\ nextId = 1
  /\ csrv = [c \in Conns |-> 0]
  /\ sockOpen = [c \in Conns |-> FALSE]
  /\ cpc = [c \in Conns |-> Idle]
  /\ cuser = [c \in Conns |-> ""]
  /\ wire = [c \in Conns |-> <<>>]
  /\ accepting = <<TRUE, FALSE, TRUE>>
  /\ hist = NoHist
  /\ repl_client = NewClient /\ cenv = NoTraffic /\ AtRest

\* The three replicas run without clients; one process may be stopped.
InitRecovery ==
  /\ Settled3
  /\ nelect = RecoveryElections /\ nbeats = 0 /\ nstops = RecoveryStops
  /\ nsyncs = 0
  /\ ncmds = 0
  /\ clients = {}

NextRecovery ==
  \/ \E r \in Replicas : Stop(r)
  \/ SilenceNoticed
  \/ \E r \in Replicas : MonitorTick(r)
  \/ \E r \in Replicas : SilentTimerFire(r)
  \/ \E r \in Replicas : ElectionAnnounce(r)
  \/ \E r \in Replicas : ElectionWaitOver(r)
  \/ \E r \in Replicas : BecomePrimaryAnnounce(r)
  \/ \E r \in Replicas : BecomePrimaryDone(r)
  \/ \E r \in Replicas : Sender(r)
  \/ \E r \in Replicas, p \in Replicas : RecvEOF(r, p)
  \/ \E r \in Replicas, p \in Replicas : RecvDropped(r, p)
  \/ \E r \in Replicas, p \in Replicas : RecvStateChange(r, p)
  \/ \E r \in Replicas, p \in Replicas : RecvElection(r, p)
  \/ \E r \in Replicas, p \in Replicas : HandlerLockAcquired(r, p)
  \/ \E r \in Replicas, p \in Replicas : RecvElected(r, p)
  \/ \E r \in Replicas, p \in Replicas : BecomeBackupDone(r, p)
  \/ \E r \in Replicas, p \in Replicas : RecvIgnored(r, p)
  \/ \E r \in Replicas, p \in Replicas : RecvSyncRequest(r, p)
  \/ \E r \in Replicas, p \in Replicas : RecvSyncData(r, p)
  \/ \E r \in Replicas, p \in Replicas : RecvSyncComplete(r, p)

\* The steps of the threads of the running replicas: monitor, timer, election,
\* sender and handler threads.  The stopping of a process is not among them.
ThreadsRecovery ==
  \/ SilenceNoticed
  \/ \E r \in Replicas : MonitorTick(r)
  \/ \E r \in Replicas : SilentTimerFire(r)
  \/ \E r \in Replicas : ElectionAnnounce(r)
  \/ \E r \in Replicas : ElectionWaitOver(r)
  \/ \E r \in Replicas : BecomePrimaryAnnounce(r)
  \/ \E r \in Replicas : BecomePrimaryDone(r)
  \/ \E r \in Replicas : Sender(r)
  \/ \E r \in Replicas, p \in Replicas : RecvEOF(r, p)
  \/ \E r \in Replicas, p \in Replicas : RecvDropped(r, p)
  \/ \E r \in Replicas, p \in Replicas : RecvStateChange(r, p)
  \/ \E r \in Replicas, p \in Replicas : RecvElection(r, p)
  \/ \E r \in Replicas, p \in Replicas : HandlerLockAcquired(r, p)
  \/ \E r \in Replicas, p \in Replicas : RecvElected(r, p)
  \/ \E r \in Replicas, p \in Replicas : BecomeBackupDone(r, p)
  \/ \E r \in Replicas, p \in Replicas : RecvIgnored(r, p)
  \/ \E r \in Replicas, p \in Replicas : RecvSyncRequest(r, p)
  \/ \E r \in Replicas, p \in Replicas : RecvSyncData(r, p)
  \/ \E r \in Replicas, p \in Replicas : RecvSyncComplete(r, p)

\* Fair scheduling: while some thread of a running replica can take a step, a
\* thread step is eventually taken.
FairRecovery == WF_vars(ThreadsRecovery)

SpecRecovery == InitRecovery /\ [][NextRecovery]_vars /\ FairRecovery

\* the PRIMARY has stopped and a BACKUP keeps running: no running replica is
\* PRIMARY, no further process stops, and an election can still be started
PrimaryLost ==
  /\ NoPrimaryRuns /\ \E b \in Replicas : alive[b]
  /\ nstops = 0 /\ nelect > 0

\* C3: once the PRIMARY has stopped and a BACKUP keeps running, eventually a
\* surviving replica is PRIMARY with its transitioning flag clear and serves
\* clients.
C3_FailoverCompletes == PrimaryLost ~> (\E b \in Replicas : TookOver(b))

\* the PRIMARY stopped and a surviving BACKUP has taken over
C3_Witness ==
  \E p \in Replicas, b \in Replicas :
    ~alive[p] /\ sstate[p] = PRIMARY /\ TookOver(b) /\ nelect < RecoveryElections

\* ------------------------------------------------------ clients at startup
\* Replicas 1 and 2 have just been started, replica 1 with --primary; one client
\* program runs and one election may be started.
StartupElections == 1
StartupCmds == 2

InitStartup == InitCluster({1, 2}, StartupElections, 0, {1}, StartupCmds)

NextStartup ==
  \/ \E r \in Replicas : AcceptLoop(r)
  \/ TimePasses
  \/ \E r \in Replicas : MonitorTick(r)
  \/ \E r \in Replicas : ElectionAnnounce(r)
  \/ \E r \in Replicas : ElectionWaitOver(r)
  \/ \E r \in Replicas : BecomePrimaryAnnounce(r)
  \/ \E r \in Replicas : BecomePrimaryDone(r)
  \/ \E r \in Replicas : Sender(r)
  \/ \E r \in Replicas, p \in Replicas : RecvDropped(r, p)
  \/ \E r \in Replicas, p \in Replicas : RecvElection(r, p)
  \/ \E r \in Replicas, p \in Replicas : RecvElected(r, p)
  \/ \E r \in Replicas, p \in Replicas : RecvIgnored(r, p)
  \/ \E r \in Replicas, p \in Replicas : RecvDataUpdate(r, p)
  \/ \E r \in Replicas, p \in Replicas : RecvSyncRequest(r, p)
  \/ \E r \in Replicas, p \in Replicas : RecvSyncData(r, p)
  \/ \E r \in Replicas, p \in Replicas : RecvSyncComplete(r, p)
  \/ \E c \in Conns, r \in Replicas : ClientConnect(c, r)
  \/ \E c \in Conns : Disconnect(c)
  \/ \E c \in Conns, u \in Users : CmdRefused(c, u)
  \/ \E c \in Conns, u \in Users, pw \in Passwords : CmdCreate(c, u, pw)
  \/ \E c \in Conns : HandleCreate(c)
  \/ \E c \in Conns, u \in Users, pw \in Passwords : CmdLogin(c, u, pw)
  \/ \E c \in Conns, u \in Users, to \in Users, b \in Bodies : CmdSend(c, u, to, b)
  \/ \E c \in Conns, u \in Users, limit \in Limits : CmdDeliver(c, u, limit)
  \/ \E c \in Conns, u \in Users : CmdDelete(c, u)
  \/ \E c \in Conns : SendAcked(c)
  \/ \E c \in Conns : ReplyAcked(c)

SpecStartup == InitStartup /\ [][NextStartup]_vars

\* C4: while a replica's role is CANDIDATE no step of a handle_client thread
\* writes its store, opens a session in its session table or enqueues a
\* DATA_UPDATE.
C4_CandidateServesNoClient ==
  [][\A c \in Conns :
       (HandlerStep(c) /\ rstate[csrv[c]] = CANDIDATE) =>
         /\ StoreKept(csrv[c])
         /\ \A u \in Users : currentUsers'[csrv[c]][u] \in
                               {currentUsers[csrv[c]][u], NoConn, ClosedSock}
         /\ ~UpdateEnqueued(csrv[c])]_vars

\* C7: on a replica that accepts client commands as PRIMARY, each successful
\* create, send, delete_msgs, deliver{limit>0} and delete enqueues one
\* DATA_UPDATE of the matching type for all peers.
C7_MutationEnqueuesUpdate ==
  [][\A c \in Conns :
       (HandlerStep(c) /\ cpc[c] = Idle /\ cpc'[c] # Idle) =>
         /\ UpdateEnqueued(csrv[c])
         /\ outq'[csrv[c]][Len(outq'[csrv[c]])] =
              <<ALL, Frame("DATA_UPDATE", UpdateType(cpc'[c].k),
                           outq'[csrv[c]][Len(outq'[csrv[c]])][2].data)>>]_vars

\* C9: a replica that won an election with a peer connected executes no client
\* write before the SYNC_DATA it asked for has been applied to its store.
C9_NoWriteBeforeSync ==
  [][\A c \in Conns :
       (HandlerStep(c) /\ hist.syncWanted[csrv[c]]) => StoreKept(csrv[c])]_vars

\* ------------------------------------------------- claims on the full sync
\* what a reader of the queue sees of its messages, whatever ids the replica
\* stored them under
Content(q) == [i \in 1..Len(q) |-> <<MsgSender(q[i]), MsgBody(q[i])>>]

\* nothing of p is on its way to b: no client command of p is between its
\* broadcast and its local write, the outbound queue of p is empty, the link
\* holds no DATA_UPDATE, and no update was lost
NoMutationInFlight(p, b) ==
  /\ \A c \in Conns : csrv[c] = p => cpc[c] = Idle
  /\ outq[p] = <<>>
  /\ \A i \in 1..Len(chan[p][b]) : chan[p][b][i].cmd # "DATA_UPDATE"
  /\ ~hist.lostUpdate

\* the SYNC_DATA frame f still says what the store of p holds
StillCurrent(p, f) ==
  f.data = (IF f.type = "USERS" THEN UsersData(p) ELSE MessagesData(p))

\* C11: when a BACKUP applies a SYNC_DATA frame of the PRIMARY that still says
\* what the PRIMARY holds and no mutation is in flight, the BACKUP's user table
\* equals the PRIMARY's (USERS) and each of its queues holds the PRIMARY's
\* messages in the PRIMARY's order (MESSAGES), so what was deleted on the
\* PRIMARY is absent on the BACKUP.
C11_SyncMirrorsPrimary ==
  [][\A b \in Replicas, p \in Replicas :
       (rstate[p] = PRIMARY /\ rstate[b] = BACKUP /\ NoMutationInFlight(p, b)
        /\ RecvSyncData(b, p) /\ StillCurrent(p, Head(chan[p][b])))
       => IF Head(chan[p][b]).type = "USERS"
          THEN usersFile'[b] = usersFile[p]
          ELSE \A u \in Users : Content(msgFile'[b][u]) = Content(msgFile[p][u])]_vars

\* ------------------------------------------------ claims on the queues
\* nothing of user u is left in the store (uf, mf): no account, no queue of
\* its own, no message it sent in any queue
Forgotten(uf, mf, u) ==
  /\ ~user_exists(uf, u)
  /\ mf[u] = <<>>
  /\ \A v \in Users : \A i \in 1..Len(mf[v]) : MsgSender(mf[v][i]) # u

\* C12: the delete of user u on the PRIMARY leaves nothing of u in the
\* PRIMARY's store, and a BACKUP that applies the DELETE_USER of u has nothing
\* of u left in its store either.
C12_DeleteUserCascades ==
  [][/\ \A c \in Conns, u \in Users :
          (CmdDelete(c, u) /\ user_exists(usersFile[csrv[c]], u))
          => Forgotten(usersFile'[csrv[c]], msgFile'[csrv[c]], u)
     /\ \A b \in Replicas, p \in Replicas :
          (RecvDataUpdate(b, p) /\ Head(chan[p][b]).type = "DELETE_USER")
          => Forgotten(usersFile'[b], msgFile'[b], Head(chan[p][b]).data.username)]_vars

\* ------------------------------------------------ the mailboxes in service
MailboxCmds == 3

\* message.body of the sends of this run
Texts == {"hi", "yo"}

\* users.txt of the PRIMARY after create alice and create bob
Registered == [u \in Users |-> "p1"]

\* SpecService reaches this state: two clients have created alice and bob on
\* the PRIMARY, replica 2, and left; replica 1 has applied both ADD_USER, which
\* reach ChatServer.users only.  With `queued`, bob has then sent alice a
\* message while she had no session: the PRIMARY stored it under its second
\* uuid4 draw and the BACKUP under a third.
Peopled(queued) ==
  /\ SettledPeers
  /\ usersFile = <<NoUsers, Registered, NoUsers>>
  /\ usersMem = <<Registered, Registered, NoUsers>>
  /\ msgFile = IF queued
               THEN <<[NoMsgs EXCEPT !["alice"] = << <<3, "bob", "hi">> >>],
                      [NoMsgs EXCEPT !["alice"] = << <<2, "bob", "hi">> >>],
                      NoMsgs>>
               ELSE [r \in Replicas |-> NoMsgs]
  /\ nextId = IF queued THEN 4 ELSE 1

\* Two clients of the PRIMARY log in and out, send and read.  The sender thread
\* and the BACKUP touch neither the PRIMARY's store nor its client sockets;
\* their steps are those of SpecService and are not taken here.
InitMailbox ==
  /\ Peopled(FALSE)
  /\ nelect = 0 /\ nbeats = 0 /\ nstops = 0 /\ nsyncs = 0
  /\ ncmds = MailboxCmds
  /\ clients = Conns

NextMailbox ==
  \/ \E c \in Conns : ClientConnect(c, SettledPrimary)
  \/ \E c \in Conns : Disconnect(c)
  \/ \E c \in Conns, u \in Users, pw \in Passwords : CmdLogin(c, u, pw)
  \/ \E c \in Conns, u \in Users : CmdLogoff(c, u)
  \/ \E c \in Conns, u \in Users, to \in Users, b \in Texts : CmdSend(c, u, to, b)
  \/ \E c \in Conns, u \in Users, limit \in Limits : CmdDeliver(c, u, limit)
  \/ \E c \in Conns : DeliverChecked(c)
  \/ \E c \in Conns : SendAcked(c)
  \/ \E c \in Conns : DeliverAcked(c)

SpecMailbox == InitMailbox /\ [][NextMailbox]_vars

\* ------------------------------------------------ removals from the queues
PurgeCmds == 2

\* One client of the PRIMARY sends, pops and deletes while alice's queue holds
\* a message of bob.
InitPurge ==
  /\ Peopled(TRUE)
  /\ nelect = 0 /\ nbeats = 0 /\ nstops = 0 /\ nsyncs = 0
  /\ ncmds = PurgeCmds
  /\ clients = {1}

NextPurge ==
  \/ \E r \in Replicas : Sender(r)
  \/ \E r \in Replicas, p \in Replicas : RecvDataUpdate(r, p)
  \/ \E c \in Conns, r \in Replicas : ClientConnect(c, r)
  \/ \E c \in Conns : Disconnect(c)
  \/ \E c \in Conns, u \in Users, to \in Users, b \in Bodies : CmdSend(c, u, to, b)
  \/ \E c \in Conns, u \in Users, limit \in Limits : CmdDeliver(c, u, limit)
  \/ \E c \in Conns : DeliverChecked(c)
  \/ \E c \in Conns, u \in Users, i \in 1..MaxId : CmdDeleteMsgs(c, u, {i})
  \/ \E c \in Conns, u \in Users : CmdDelete(c, u)
  \/ \E c \in Conns : SendAcked(c)
  \/ \E c \in Conns : DeliverAcked(c)
  \/ \E c \in Conns : DeleteMsgsAcked(c)
  \/ \E c \in Conns : ReplyAcked(c)

SpecPurge == InitPurge /\ [][NextPurge]_vars

\* the messages of a queue
Range(q) == {q[i] : i \in 1..Len(q)}

\* the messages of `old` that are no longer in `new`, and the number of
\* messages of `new` that `old` did not hold
Removed(old, new) == Range(old) \ Range(new)
Added(old, new) == Len(FilterSeq(new, Range(new) \ Range(old)))

\* `new` is `old` without some messages, the others in their order, followed
\* by messages `old` did not hold
OrderKept(old, new) ==
  new = FilterSeq(old, Range(new)) \o FilterSeq(new, Range(new) \ Range(old))

\* the step carries out a delete_messages for u's queue on replica r that
\* names every id in `ids`: handle_delete_messages or handle_deliver after
\* wait_for_acks, or the DELETE_MESSAGES of _handle_data_update
DeleteNamed(r, u, ids) ==
  \/ \E c \in Conns :
       /\ csrv[c] = r /\ cpc[c].k \in {"deliver", "delete_msgs"} /\ cpc'[c] # cpc[c]
       /\ cpc[c].src = u /\ ids \subseteq cpc[c].msg_ids
  \/ \E p \in Replicas :
       /\ RecvDataUpdate(r, p) /\ Head(chan[p][r]).type = "DELETE_MESSAGES"
       /\ Head(chan[p][r]).data.username = u /\ ids \subseteq Head(chan[p][r]).data.msg_ids

\* the step carries out delete_user(s) on replica r
UserDeleted(r, s) == user_exists(usersFile[r], s) /\ ~user_exists(usersFile'[r], s)

\* the step changes u's queue on r as the spec lets it; `cascade` adds the
\* removal, by delete_user(s), of the messages s sent
QueueStep(r, u, cascade) ==
  LET old == msgFile[r][u]
      new == msgFile'[r][u]
      gone == Removed(old, new) IN
  /\ OrderKept(old, new)
  /\ Added(old, new) <= 1 \/ \E p \in Replicas : RecvSyncData(r, p)
  /\ gone # {} =>
       /\ Added(old, new) = 0
       /\ \/ DeleteNamed(r, u, {MsgId(m) : m \in gone})
          \/ UserDeleted(r, u)
          \/ cascade /\ \E s \in Users \ {u} :
                          UserDeleted(r, s) /\ \A m \in gone : MsgSender(m) = s

\* C13 as the spec states it: every step changes get_messages(u) only by
\* appending one message at the tail or by removing messages named in a
\* delete_messages for u, removed by delete_user(u) or delivered to u under a
\* positive limit; the messages that stay keep their order.
C13_QueueAppendOnly ==
  [][\A r \in Replicas, u \in Users : QueueStep(r, u, FALSE)]_vars

\* C13 amended: as above, and delete_user(s) also removes from u's queue the
\* messages whose sender is s.
C13_QueueAppendOnlyOrCascade ==
  [][\A r \in Replicas, u \in Users : QueueStep(r, u, TRUE)]_vars

\* delete_user(bob) has removed bob's message from alice's queue on the
\* PRIMARY, and the messages named in a delete have been removed from a queue
C13_Witness ==
  \E c \in Conns :
    /\ cpc[c].k = "delete" /\ cpc[c].src = "bob"
    /\ msgFile[csrv[c]]["alice"] = <<>>
    /\ ~user_exists(usersFile[csrv[c]], "bob")

\* ------------------------------------------------ claims on send and deliver
\* the handler of connection c1 accepted a send of the same sender to the same
\* recipient before the handler of c did (its uuid4 draw of line 350 came
\* first) and has neither delivered nor stored it yet
AcceptedBefore(c1, c) ==
  /\ c1 # c /\ csrv[c1] = csrv[c]
  /\ cpc[c1].k = "send" /\ cpc[c].k = "send"
  /\ cpc[c1].src = cpc[c].src /\ cpc[c1].to = cpc[c].to
  /\ cpc[c1].msg_id < cpc[c].msg_id

\* the queue of `to` on r holds a message of `from` that no deliver has yet
\* emitted to `to`
QueuedUnread(r, from, to) ==
  \E i \in 1..Len(msgFile[r][to]) :
    MsgSender(msgFile[r][to][i]) = from /\ MsgId(msgFile[r][to][i]) \notin seen[r][to]

\* C14: a send from s to r is delivered inline or appended to r's queue only
\* when every send from s to r that the PRIMARY accepted before it has been
\* delivered or appended, and it is delivered inline only when r has read every
\* queued message of s: r never observes a later message of s before an
\* earlier one, and the queue is in the order of acceptance.
C14_PerSenderFifo ==
  [][\A c \in Conns :
       SendAcked(c)
       => /\ \A c1 \in Conns : ~AcceptedBefore(c1, c)
          /\ Sendable(csrv[c], cpc[c].to) => ~QueuedUnread(csrv[c], cpc[c].src, cpc[c].to)]_vars

\* the frames written on client socket s in a step that does not read a
\* command from it
NewFrames(s) == SubSeq(wire'[s], Len(wire[s]) + 1, Len(wire'[s]))

\* how many frames of q are the deliver frame of this message
DeliverCount(q, id, from, body) ==
  Cardinality({i \in 1..Len(q) : q[i] = Deliver(id, from, body)})

\* C15: when handle_send completes a send to recipient r, the message is
\* appended to r's queue on the PRIMARY exactly when r had no session or the
\* write to r's session socket failed; when the write succeeded r's socket
\* received exactly one deliver frame of the message and no other socket any;
\* in every case the sender's socket receives the reply send ok.
C15_SendStoresOrDelivers ==
  [][\A c \in Conns :
       SendAcked(c)
       => LET r == csrv[c]
              m == cpc[c]
              sock == currentUsers[r][m.to]
              failed == sock # NoConn /\ (sock \notin Conns \/ ~sockOpen[sock])
              stored == msgFile'[r][m.to] # msgFile[r][m.to]
          IN /\ stored <=> (sock = NoConn \/ failed)
             /\ stored => \E id \in 1..MaxId :
                            msgFile'[r] = add_message(msgFile[r], m.to, m.src, m.body, id)
             /\ ~stored => msgFile' = msgFile
             /\ \A s \in Conns :
                  DeliverCount(NewFrames(s), m.msg_id, m.src, m.body)
                    = IF ~stored /\ s = sock THEN 1 ELSE 0
             /\ sockOpen[c] =>
                  Reply("send", "Message sent successfully") \in Range(NewFrames(c))]_vars

\* a send has completed to a recipient whose session held a closed socket: the
\* message is in the queue and the sender has its reply
C15_Witness ==
  \E c \in Conns, u \in Users :
    /\ csrv[c] # 0 /\ cpc[c] = Idle
    /\ currentUsers[csrv[c]][u] = ClosedSock
    /\ msgFile[csrv[c]][u] # <<>>
    /\ wire[c] = <<Reply("send", "Message sent successfully")>>

\* ------------------------------------------------ a pop across a role change
HandoverElections == 1
HandoverCmds == 2

\* SpecStartup reaches this state: replicas 1 and 2 have just started, replica
\* 1 with --primary; a client of replica 1 has created alice, come back and
\* sent her a message in bob's name while she had no session, and left.
\* ReplicationServer.state of replica 1 is still BACKUP, so nothing was
\* broadcast and replica 2 holds nothing.
InitHandover ==
  /\ ClusterStarted({1, 2}, HandoverElections, 0, {1}, HandoverCmds)
  /\ usersFile = <<[NoUsers EXCEPT !["alice"] = "p1"], NoUsers, NoUsers>>
  /\ usersMem = <<[NoUsers EXCEPT !["alice"] = "p1"], NoUsers, NoUsers>>
  /\ msgFile = <<[NoMsgs EXCEPT !["alice"] = << <<2, "bob", "hi">> >>], NoMsgs, NoMsgs>>
  /\ nextId = 3

NextHandover ==
  \/ \E r \in Replicas : AcceptLoop(r)
  \/ TimePasses
  \/ \E r \in Replicas : MonitorTick(r)
  \/ \E r \in Replicas : ElectionAnnounce(r)
  \/ \E r \in Replicas : ElectionWaitOver(r)
  \/ \E r \in Replicas : BecomePrimaryAnnounce(r)
  \/ \E r \in Replicas : BecomePrimaryDone(r)
  \/ \E r \in Replicas : Sender(r)
  \/ \E r \in Replicas, p \in Replicas : RecvDropped(r, p)
  \/ \E r \in Replicas, p \in Replicas : RecvElection(r, p)
  \/ \E r \in Replicas, p \in Replicas : RecvElected(r, p)
  \/ \E r \in Replicas, p \in Replicas : RecvIgnored(r, p)
  \/ \E r \in Replicas, p \in Replicas : RecvDataUpdate(r, p)
  \/ \E r \in Replicas, p \in Replicas : RecvSyncRequest(r, p)
  \/ \E r \in Replicas, p \in Replicas : RecvSyncData(r, p)
  \/ \E r \in Replicas, p \in Replicas : RecvSyncComplete(r, p)
  \/ \E c \in Conns, r \in Replicas : ClientConnect(c, r)
  \/ \E c \in Conns : Disconnect(c)
  \/ \E c \in Conns, u \in Users : CmdRefused(c, u)
  \/ \E c \in Conns, u \in Users, limit \in Limits : CmdDeliver(c, u, limit)
  \/ \E c \in Conns : DeliverChecked(c)
  \/ \E c \in Conns : DeliverAcked(c)

SpecHandover == InitHandover /\ [][NextHandover]_vars

\* the first min(n, k) of the k messages of u's queue on r whose id is not in
\* the seen set of u, in the order of the queue
FirstUnseen(r, u, n) ==
  LET q == msgFile[r][u]
      un == FilterSeq(q, {m \in Range(q) : MsgId(m) \notin seen[r][u]})
  IN SubSeq(un, 1, Min(n, Len(un)))

\* C16: a deliver with limit n > 0 writes on the caller's socket the deliver
\* frames of the first min(n, k) unseen messages of the caller's queue, in queue
\* order, and broadcasts one DELETE_MESSAGES naming them; when it completes,
\* exactly those ids are gone from the queue, the other messages keep their
\* order, nothing more is broadcast, and the terminal deliver reply reports how
\* many messages were emitted.
C16_DeliverPops ==
  [][\A c \in Conns :
       /\ \A u \in Users, n \in Limits \ {0} :
            (CmdDeliver(c, u, n) /\ user_exists(usersFile[csrv[c]], u))
            => LET r == csrv[c]
                   out == FirstUnseen(r, u, n)
               IN /\ SubSeq(wire'[c], 1, Len(out)) = Frames(out)
                  /\ out # <<>> =>
                       /\ Len(wire'[c]) = Len(out)
                       /\ cpc'[c].k = "emitted" /\ cpc'[c].msg_ids = IdsOf(out)
                  /\ out = <<>> => wire'[c] = <<Reply("deliver", Delivered(0))>>
                  /\ outq' = outq
       /\ (DeliverChecked(c) /\ Accepts(csrv[c]))
          => outq'[csrv[c]] = Append(outq[csrv[c]],
                <<ALL, Frame("DATA_UPDATE", "DELETE_MESSAGES",
                             [username |-> cpc[c].src, msg_ids |-> cpc[c].msg_ids])>>)
       /\ DeliverAcked(c)
          => LET r == csrv[c]
                 m == cpc[c]
                 q == msgFile[r][m.src]
             IN /\ msgFile'[r] = [msgFile[r] EXCEPT ![m.src] =
                       FilterSeq(q, {x \in Range(q) : MsgId(x) \notin m.msg_ids})]
                /\ outq' = outq
                /\ sockOpen[c] =>
                     Reply("deliver", Delivered(Cardinality(m.msg_ids))) \in Range(NewFrames(c))]_vars

\* C17: a deliver with limit 0 leaves every queue and the user table of the
\* replica's store as they are, puts nothing on the outgoing queue, and is
\* over once its frames and its reply are written: no removal is left pending.
C17_PeekKeepsQueue ==
  [][\A c \in Conns, u \in Users :
       CmdDeliver(c, u, 0)
       => /\ msgFile' = msgFile /\ usersFile' = usersFile /\ outq' = outq
          /\ cpc'[c] = Idle]_vars

\* a peek has emitted a message and replied, and the message is still in the
\* caller's queue
C17_Witness ==
  \E c \in Conns, u \in Users :
    /\ csrv[c] # 0 /\ cpc[c] = Idle
    /\ \E m \in Range(msgFile[csrv[c]][u]) :
         wire[c] = <<Deliver(MsgId(m), MsgSender(m), MsgBody(m)),
                     Reply("deliver", Delivered(1))>>

\* ------------------------------------------------ the seen set of a session
SessionCmds == 5

\* One client of the PRIMARY logs in and out and reads alice's queue, which
\* holds a message of bob.
InitSession ==
  /\ Peopled(TRUE)
  /\ nelect = 0 /\ nbeats = 0 /\ nstops = 0 /\ nsyncs = 0
  /\ ncmds = SessionCmds
  /\ clients = {1}

NextSession ==
  \/ \E r \in Replicas : Sender(r)
  \/ \E r \in Replicas, p \in Replicas : RecvDataUpdate(r, p)
  \/ \E c \in Conns, r \in Replicas : ClientConnect(c, r)
  \/ \E c \in Conns : Disconnect(c)
  \/ \E c \in Conns, u \in Users, pw \in Passwords : CmdLogin(c, u, pw)
  \/ \E c \in Conns, u \in Users : CmdLogoff(c, u)
  \/ \E c \in Conns, u \in Users, limit \in Limits : CmdDeliver(c, u, limit)
  \/ \E c \in Conns : DeliverChecked(c)
  \/ \E c \in Conns : DeliverAcked(c)

SpecSession == InitSession /\ [][NextSession]_vars

\* the last command read on connection c was a login of u that succeeded: the
\* session of u on c has just begun
SessionBegun(c, u) ==
  /\ csrv[c] # 0 /\ cpc[c] = Idle /\ cuser[c] = u
  /\ currentUsers[csrv[c]][u] = c
  /\ wire[c] # <<>> /\ wire[c][1].cmd = "login" /\ ~wire[c][1].error

\* C18: a peek emits the queued messages whose ids are not in the seen set and
\* adds them to it, so a second peek with no new message emits none; and the
\* seen set ends with the session: a peek that is the first command of a
\* session of u emits every message of u's queue.
C18_SeenSetPerSession ==
  [][\A c \in Conns, u \in Users :
       (CmdDeliver(c, u, 0) /\ user_exists(usersFile[csrv[c]], u))
       => LET r == csrv[c]
              q == msgFile[r][u]
              fresh == FilterSeq(q, {m \in Range(q) : MsgId(m) \notin seen[r][u]})
          IN /\ wire'[c] = Frames(fresh) \o <<Reply("deliver", Delivered(Len(fresh)))>>
             /\ seen'[r][u] = seen[r][u] \cup IdsOf(fresh)
             /\ SessionBegun(c, u) =>
                  wire'[c] = Frames(q) \o <<Reply("deliver", Delivered(Len(q)))>>]_vars

\* ------------------------------------------------ a role change under a pop
\* C19: when the replica is no longer an accepting PRIMARY at the moment a
\* deliver with a positive limit, whose frames are already on the socket, goes
\* on (at its re-check of the role, or at the end of its wait for
\* acknowledgements), that step removes no message from any queue, puts no
\* DELETE_MESSAGES on the outgoing queue, and the reply written on a socket
\* that is still open says the messages were preserved.
C19_RoleChangeKeepsMessages ==
  [][\A c \in Conns :
       ((DeliverChecked(c) \/ DeliverAcked(c)) /\ ~Accepts(csrv[c]))
       => /\ msgFile' = msgFile
          /\ outq' = outq
          /\ sockOpen[c] =>
               Reply("deliver", Preserved(cpc[c].n)) \in Range(NewFrames(c))]_vars

\* ------------------------------------------------ where the sessions live
\* the names that have an entry in current_users of replica r
Online(r) == {u \in Users : currentUsers[r][u] # NoConn}

\* C20: current_users binds each username to at most one socket, and a replica
\* whose current_users has an entry is PRIMARY, in the role ChatServer stores
\* or in ReplicationServer.state.
C20_SessionsOnlyOnPrimary ==
  \A r \in Replicas :
    /\ \A u \in Users :
         Cardinality({s \in Conns \cup {ClosedSock} : currentUsers[r][u] = s}) <= 1
    /\ Online(r) # {} => (sstate[r] = PRIMARY \/ rstate[r] = PRIMARY)

\* ------------------------------------------------ a PRIMARY that steps down
StepDownElections == 1
StepDownCmds == 2

\* The settled cluster serves one client program while the heartbeats of the
\* PRIMARY stay out: the BACKUP may start one election, win it and announce
\* itself, and the PRIMARY steps down on its ELECTED.
InitStepDown ==
  /\ Settled
  /\ nelect = StepDownElections /\ nbeats = 0 /\ nstops = 0 /\ nsyncs = 0
  /\ ncmds = StepDownCmds
  /\ clients = {1}

NextStepDown ==
  \/ \E r \in Replicas : AcceptLoop(r)
  \/ TimePasses
  \/ \E r \in Replicas : MonitorTick(r)
  \/ \E r \in Replicas : ElectionAnnounce(r)
  \/ \E r \in Replicas : ElectionWaitOver(r)
  \/ \E r \in Replicas : BecomePrimaryAnnounce(r)
  \/ \E r \in Replicas : BecomePrimaryDone(r)
  \/ \E r \in Replicas : Sender(r)
  \/ \E r \in Replicas, p \in Replicas : RecvDropped(r, p)
  \/ \E r \in Replicas, p \in Replicas : RecvStateChange(r, p)
  \/ \E r \in Replicas, p \in Replicas : RecvElection(r, p)
  \/ \E r \in Replicas, p \in Replicas : RecvElected(r, p)
  \/ \E r \in Replicas, p \in Replicas : BecomeBackupDone(r, p)
  \/ \E r \in Replicas, p \in Replicas : RecvDataUpdate(r, p)
  \/ \E r \in Replicas, p \in Replicas : RecvSyncRequest(r, p)
  \/ \E r \in Replicas, p \in Replicas : RecvSyncData(r, p)
  \/ \E r \in Replicas, p \in Replicas : RecvSyncComplete(r, p)
  \/ \E c \in Conns, r \in Replicas : ClientConnect(c, r)
  \/ \E c \in Conns : Disconnect(c)
  \/ \E c \in Conns, u \in Users : CmdRefused(c, u)
  \/ \E c \in Conns, u \in Users, pw \in Passwords : CmdCreate(c, u, pw)
  \/ \E c \in Conns : HandleCreate(c)
  \/ \E c \in Conns : ReplyAcked(c)
  \/ \E c \in Conns, u \in Users, pw \in Passwords : CmdLogin(c, u, pw)
  \/ \E c \in Conns, u \in Users : CmdLogoff(c, u)

SpecStepDown == InitStepDown /\ [][NextStepDown]_vars

\* ------------------------------------------------ claims on the step-down
\* C21: in the step in which the Chat Core of replica r is told it is BACKUP,
\* every socket of its session table that was open gets exactly one
\* server_status error frame, a socket already closed gets none, all of them
\* are closed and the table is emptied; the table is still empty when the
\* notification handler returns.
C21_BackupClosesSessions ==
  [][\A r \in Replicas :
       /\ (sstate[r] # BACKUP /\ sstate'[r] = BACKUP)
          => /\ \A c \in SessionSocks(r) :
                  /\ ~sockOpen'[c]
                  /\ NewFrames(c) = IF sockOpen[c] THEN <<BackupMode>> ELSE <<>>
             /\ Online(r)' = {}
       /\ (\E p \in Replicas : BecomeBackupDone(r, p)) => Online(r) = {}]_vars

\* ------------------------------------------------ the life of a session
\* the step binds the session of u on replica r to connection c
Bound(r, u, c) == currentUsers[r][u] # c /\ currentUsers'[r][u] = c

\* the step ends the binding of the session of u on replica r to connection c
Unbound(r, u, c) == currentUsers[r][u] = c /\ currentUsers'[r][u] # c

\* C22: the session of u on connection c begins only in a login or a create
\* for u read on c that succeeds, and ends only in a logoff for u read on c,
\* when the handler of c leaves, in a delete of u, or when the replica stops
\* serving as PRIMARY; a command read on another connection, or the end of
\* another connection, never ends it.
C22_SessionLifecycle ==
  [][\A r \in Replicas, u \in Users, c \in Conns :
       /\ Bound(r, u, c)
          => \/ \E pw \in Passwords : CmdLogin(c, u, pw) /\ LoginOk(r, u, pw)
             \/ HandleCreate(c) /\ cpc[c].src = u
       /\ Unbound(r, u, c)
          => \/ CmdLogoff(c, u)
             \/ csrv[c] = r /\ csrv'[c] = 0
             \/ \E c2 \in Conns : CmdDelete(c2, u)
             \/ sstate'[r] # PRIMARY \/ strans'[r]]_vars

\* ------------------------------------------------ commands a BACKUP is sent
\* the step in which replica r, whose stored role is BACKUP, answers connection
\* c: handle_client closes the connection it was handed, or it answers the
\* command it read on a connection it still held
BackupAnswers(c, r) ==
  /\ sstate[r] = BACKUP
  /\ \/ ClientConnect(c, r)
     \/ csrv[c] = r /\ \E u \in Users : CmdRefused(c, u)

\* the frames of q that carry the name of a command
CmdFrames(q) == {i \in 1..Len(q) : q[i].cmd \in Cmds}

\* C23: when a BACKUP answers a client, the client is written exactly one frame
\* that carries the name of a command (create, for a client that presented a
\* create), that frame has error = true, and no user table, queue or session
\* table of any replica changes.
C23_BackupRefusesCreate ==
  [][\A c \in Conns, r \in Replicas :
       BackupAnswers(c, r)
       => /\ Cardinality(CmdFrames(wire'[c])) = 1
          /\ \A i \in CmdFrames(wire'[c]) : wire'[c][i].error
          /\ usersFile' = usersFile /\ usersMem' = usersMem /\ msgFile' = msgFile
          /\ currentUsers' = currentUsers]_vars

\* ------------------------------------------------ commands under a transition
\* the step in which the handler of connection c reads a command
ReadsCommand(c) ==
  \E u \in Users :
    \/ CmdRefused(c, u) \/ CmdLogoff(c, u) \/ CmdDelete(c, u)
    \/ \E pw \in Passwords : CmdCreate(c, u, pw) \/ CmdLogin(c, u, pw)
    \/ \E to \in Users, b \in Bodies \cup Texts : CmdSend(c, u, to, b)
    \/ \E limit \in Limits : CmdDeliver(c, u, limit)
    \/ \E i \in 1..MaxId : CmdDeleteMsgs(c, u, {i})

\* the step in which the handler of connection c goes on with the command it
\* has read
GoesOn(c) ==
  \/ HandleCreate(c) \/ ReplyAcked(c) \/ SendAcked(c)
  \/ DeliverChecked(c) \/ DeliverAcked(c) \/ DeleteMsgsAcked(c)

\* the frames the step writes on connection c
Answer(c) == IF ReadsCommand(c) THEN wire'[c] ELSE NewFrames(c)

\* C24: while ReplicationServer.transitioning of a replica is set, a step of a
\* client handler of that replica changes no user table and no queue, changes
\* the session table only by leaving, and every frame it writes that carries
\* the name of a command has error = true.
C24_NoCommandInTransition ==
  [][\A c \in Conns :
       (csrv[c] # 0 /\ rtrans[csrv[c]] /\ (ReadsCommand(c) \/ GoesOn(c)))
       => /\ usersFile' = usersFile /\ usersMem' = usersMem /\ msgFile' = msgFile
          /\ currentUsers' = currentUsers \/ csrv'[c] = 0
          /\ \A i \in CmdFrames(Answer(c)) : Answer(c)[i].error]_vars

\* ------------------------------------------------------------------ login
\* the frame that answers the command connection c has just sent, or <<>>
\* when the handler wrote none
LastFrame(c) == IF wire'[c] = <<>> THEN <<>> ELSE <<wire'[c][Len(wire'[c])]>>

\* the answer to the command of c is an error frame of command cmd
Rejected(c, cmd) ==
  /\ LastFrame(c) # <<>>
  /\ LastFrame(c)[1].cmd = cmd /\ LastFrame(c)[1].error

\* C25: a login for a username that has an active session is rejected with an
\* error and leaves the binding of the session unchanged; a login succeeds
\* only if the username exists and the password equals the stored one, and
\* its reply carries to = username and the number of queued messages.
C25_LoginRule ==
  [][\A c \in Conns, u \in Users, pw \in Passwords :
       CmdLogin(c, u, pw) =>
         LET r == csrv[c] IN
         /\ currentUsers[r][u] # NoConn
            => /\ Rejected(c, "login")
               /\ currentUsers'[r][u] = currentUsers[r][u]
         /\ (LastFrame(c) # <<>> /\ ~LastFrame(c)[1].error)
            => /\ LoginOk(r, u, pw)
               /\ LastFrame(c)[1].to = u
               /\ LastFrame(c)[1].body = LoginBody(Len(msgFile[r][u]))]_vars

\* ------------------------------------------------------------- validation
\* ",".join(names)
RECURSIVE Joined(_)
Joined(names) ==
  IF names = <<>> THEN ""
  ELSE IF Len(names) = 1 THEN names[1]
  ELSE names[1] \o "," \o Joined(Tail(names))

\* the orders in which the keys of ChatServer.users can stand: the dict keeps
\* the order in which the names were loaded and created
Orders == {<<"alice", "bob">>, <<"bob", "alice">>}

\* ChatServer.handle_list with the pattern that matches every name ("" or
\* "all"); order is the order of the keys of ChatServer.users
CmdList(c, src, order) ==
  LET r == csrv[c]
      names == SelectSeq(order, LAMBDA u : usersMem[r][u] # NoPw) IN
  /\ Reads(c) /\ Accepts(r)
  /\ Finish(c, r, src, currentUsers[r], Drained(c), Reply("list", Joined(names)))
  /\ UNCHANGED <<roleVars, monVars, elecVars, netVars, storeVars, usersMem, seen, limits, hist, layer>>

\* the passwords a client types: the one alice registers with and another
Secrets == {"p1", "p2"}
\* what a client puts in the to and body fields of a send: a value or nothing
Recipients == Users \cup {""}
Contents == Bodies \cup {""}

ValidationCmds == 3

\* The settled cluster serves one client program that sends every command,
\* with valid and with invalid fields.
InitValidation ==
  /\ Settled
  /\ nelect = 0 /\ nbeats = 0 /\ nstops = 0 /\ nsyncs = 0
  /\ ncmds = ValidationCmds
  /\ clients = {1}

NextValidation ==
  \/ \E r \in Replicas : Sender(r)
  \/ \E r \in Replicas, p \in Replicas : RecvDataUpdate(r, p)
  \/ \E c \in Conns : ClientConnect(c, SettledPrimary)
  \/ \E c \in Conns : Disconnect(c)
  \/ \E c \in Conns, u \in Users, pw \in Secrets : CmdCreate(c, u, pw)
  \/ \E c \in Conns : HandleCreate(c)
  \/ \E c \in Conns, u \in Users, pw \in Secrets : CmdLogin(c, u, pw)
  \/ \E c \in Conns, u \in Users : CmdLogoff(c, u)
  \/ \E c \in Conns, u \in Users, order \in Orders : CmdList(c, u, order)
  \/ \E c \in Conns, u \in Users, to \in Recipients, b \in Contents : CmdSend(c, u, to, b)
  \/ \E c \in Conns, u \in Users, limit \in Limits : CmdDeliver(c, u, limit)
  \/ \E c \in Conns : DeliverChecked(c)
  \/ \E c \in Conns, u \in Users, ids \in {{}, {1}} : CmdDeleteMsgs(c, u, ids)
  \/ \E c \in Conns, u \in Users : CmdDelete(c, u)
  \/ \E c \in Conns : SendAcked(c)
  \/ \E c \in Conns : DeliverAcked(c)
  \/ \E c \in Conns : DeleteMsgsAcked(c)
  \/ \E c \in Conns : ReplyAcked(c)

SpecValidation == InitValidation /\ [][NextValidation]_vars

\* the user table, the message queues, the session table and the outbound
\* queue of replica r are what they were
Untouched(r) ==
  /\ usersFile'[r] = usersFile[r] /\ usersMem'[r] = usersMem[r]
  /\ msgFile'[r] = msgFile[r]
  /\ currentUsers'[r] = currentUsers[r]
  /\ outq'[r] = outq[r]

\* C26: a validation failure (create of an existing username, login of an
\* unknown user or with a wrong password, send with an empty body or recipient
\* or to an unknown recipient, delete_msgs without ids, delete of an unknown
\* user) is answered with an error frame whose cmd is the request's cmd, and
\* the user table, the queues, the session table and the outbound queue stay
\* as they were.
C26_ValidationFailure ==
  [][\A c \in Conns :
       LET r == csrv[c] IN
       /\ (HandleCreate(c) /\ user_exists(usersFile[r], cpc[c].src))
          => Rejected(c, "create") /\ Untouched(r)
       /\ \A u \in Users :
            /\ \A pw \in Secrets :
                 (CmdLogin(c, u, pw) /\ (~user_exists(usersFile[r], u) \/ usersMem[r][u] # pw))
                 => Rejected(c, "login") /\ Untouched(r)
            /\ \A to \in Recipients, b \in Contents :
                 (CmdSend(c, u, to, b)
                    /\ (b = "" \/ to = "" \/ ~user_exists(usersFile[r], to)))
                 => Rejected(c, "send") /\ Untouched(r)
            /\ CmdDeleteMsgs(c, u, {}) => Rejected(c, "delete_msgs") /\ Untouched(r)
            /\ (CmdDelete(c, u) /\ ~user_exists(usersFile[r], u))
               => Rejected(c, "delete") /\ Untouched(r)]_vars

\* alice is registered with p1 and a login with another password has just
\* been refused
C26_Witness ==
  /\ csrv[1] = SettledPrimary
  /\ usersMem[SettledPrimary]["alice"] = "p1"
  /\ currentUsers[SettledPrimary]["alice"] = NoConn
  /\ cuser[1] = "alice"
  /\ wire[1] = <<Error("login", "Username/Password error")>>

\* --------------------------------------------------------- every command
\* the step is a step of the handler of connection c for a request cmd
Takes(c, cmd) ==
  CASE cmd = "create" ->
         \/ \E u \in Users, pw \in Secrets : CmdCreate(c, u, pw)
         \/ HandleCreate(c)
         \/ ReplyAcked(c) /\ cpc[c].k = "create"
    [] cmd = "login" -> \E u \in Users, pw \in Secrets : CmdLogin(c, u, pw)
    [] cmd = "logoff" -> \E u \in Users : CmdLogoff(c, u)
    [] cmd = "list" -> \E u \in Users, order \in Orders : CmdList(c, u, order)
    [] cmd = "send" ->
         \/ \E u \in Users, to \in Recipients, b \in Contents : CmdSend(c, u, to, b)
         \/ SendAcked(c)
    [] cmd = "deliver" ->
         \/ \E u \in Users, limit \in Limits : CmdDeliver(c, u, limit)
         \/ DeliverChecked(c)
         \/ DeliverAcked(c)
    [] cmd = "delete_msgs" ->
         \/ \E u \in Users, ids \in SUBSET (1..MaxId) : CmdDeleteMsgs(c, u, ids)
         \/ DeleteMsgsAcked(c)
    [] cmd = "delete" ->
         \/ \E u \in Users : CmdDelete(c, u)
         \/ ReplyAcked(c) /\ cpc[c].k = "delete"

\* the frames on connection c that answer a command: a server_status notice
\* answers none
Answers(c) == SelectSeq(wire'[c], LAMBDA f : f.cmd # "server_status")

\* C27: every command the handler of the PRIMARY processes, in any session
\* state (a logoff for a user without a session included), ends with a frame
\* whose cmd is the request's cmd; the handler never leaves the connection
\* without that reply.
C27_EveryCommandAnswered ==
  [][\A c \in Conns, cmd \in Cmds :
       (Takes(c, cmd) /\ cpc'[c] = Idle)
       => /\ Answers(c) # <<>>
          /\ Answers(c)[Len(Answers(c))].cmd = cmd]_vars

\* ------------------------------------------------------ the client's layer
MaxRequests == 3
MaxFaults == 2
MaxFrames == 1

\* queue.Queue.put that forgets the item
forget(q, m) == q

\* queue.Queue.put: the item goes to the tail
put(q, m) == Append(q, m)

\* the i-th server connect() tries when it starts at current_server_idx = idx
Tried(idx, i) == ((idx + i - 2) % NumReplicas) + 1

\* the server connect() ends on: the first of the list, from idx round, whose
\* port takes the connection; NoSocket when none does
Reached(idx, listening) ==
  LET hits == {i \in 1..NumReplicas : Tried(idx, i) \in listening} IN
  IF hits = {} THEN NoSocket
  ELSE Tried(idx, CHOOSE i \in hits : \A j \in hits : i <= j)

\* ReplicationClient._process_queued_messages when the first k writes succeed:
\* the requests written, the queue left and the request whose write failed
process_queued_messages(q, k) ==
  IF k >= Len(q) THEN [sent |-> q, queue |-> <<>>, failed |-> 0]
  ELSE [sent |-> SubSeq(q, 1, k),
        queue |-> put(SubSeq(q, k + 2, Len(q)), q[k + 1]),
        failed |-> q[k + 1]]

\* the record of the requests ids written on the socket, by a flush or not
Stamped(ids, flushed) ==
  [i \in 1..Len(ids) |-> [id |-> ids[i], flushed |-> flushed]]

\* ReplicationClient.connect; k writes of the flush succeed
connect(rc, env, k) ==
  IF rc.connected THEN [rc |-> rc, env |-> env, ok |-> TRUE]
  ELSE IF rc.recent THEN [rc |-> rc, env |-> env, ok |-> FALSE]
  ELSE LET s == Reached(rc.current_server_idx, env.listening)
           f == process_queued_messages(rc.message_queue, k) IN
       IF s = NoSocket
       THEN [rc |-> [rc EXCEPT !.socket = NoSocket, !.connected = FALSE, !.recent = TRUE,
                               !.reconnect_backoff = Min(@ * 2, max_reconnect_backoff)],
             env |-> env, ok |-> FALSE]
       ELSE [rc |-> [rc EXCEPT !.socket = s, !.current_server_idx = s, !.connected = TRUE,
                               !.recent = TRUE, !.message_queue = f.queue,
                               !.reconnect_backoff = first_reconnect_backoff],
             env |-> [env EXCEPT !.written = @ \o Stamped(f.sent, TRUE),
                                 !.broken = f.failed # 0,
                                 !.failed = f.failed,
                                 !.faults = IF f.failed # 0 THEN @ + 1 ELSE @],
             ok |-> TRUE]

\* the numbers of writes after which a flush of rc's queue can fail
Flushes(rc, env) ==
  {k \in 0..Len(rc.message_queue) : k = Len(rc.message_queue) \/ env.faults < MaxFaults}

\* ReplicationClient.close
close(rc) == [rc EXCEPT !.socket = NoSocket, !.connected = FALSE]

\* ReplicationClient.send_msg for the next request of the program
SendMsg ==
  LET m == cenv.submitted + 1
      env == [cenv EXCEPT !.submitted = m] IN
  /\ m <= MaxRequests
  /\ IF ~repl_client.connected
     THEN LET rc == [repl_client EXCEPT !.message_queue = put(@, m)] IN
          \E k \in Flushes(rc, env) :
            /\ repl_client' = connect(rc, env, k).rc
            /\ cenv' = [connect(rc, env, k).env EXCEPT !.ret = FALSE]
     ELSE IF ~cenv.broken
     THEN /\ cenv' = [env EXCEPT !.written = @ \o Stamped(<<m>>, FALSE),
                                 !.ret = TRUE]
          /\ UNCHANGED repl_client
     ELSE LET rc == [close(repl_client) EXCEPT !.message_queue = put(@, m)]
              en == [env EXCEPT !.broken = FALSE] IN
          \E k \in Flushes(rc, en) :
            /\ repl_client' = connect(rc, en, k).rc
            /\ cenv' = [connect(rc, en, k).env EXCEPT !.ret = FALSE]
  /\ UNCHANGED <<roleVars, monVars, elecVars, netVars, storeVars, coreVars, cliVars, limits,
                 hist, bench>>

\* ChatClientGUI.listen_for_msgs / ReplicationClient.receive_msg: the receiver
\* thread finds the layer disconnected and calls connect()
Reconnect ==
  /\ ~repl_client.connected
  /\ \E k \in Flushes(repl_client, cenv) :
       /\ repl_client' = connect(repl_client, cenv, k).rc
       /\ cenv' = connect(repl_client, cenv, k).env
  /\ UNCHANGED <<roleVars, monVars, elecVars, netVars, storeVars, coreVars, cliVars, limits,
                 hist, bench>>

\* ChatClientGUI.try_reconnect: close, then connect
TryReconnect ==
  /\ repl_client.connected
  /\ LET rc == close(repl_client)
         env == [cenv EXCEPT !.broken = FALSE] IN
     \E k \in Flushes(rc, env) :
       /\ repl_client' = connect(rc, env, k).rc
       /\ cenv' = connect(rc, env, k).env
  /\ UNCHANGED <<roleVars, monVars, elecVars, netVars, storeVars, coreVars, cliVars, limits,
                 hist, bench>>

\* ReplicationClient.receive_msg reads a frame; listen_for_msgs hands it to the
\* main thread
ReceiveMsg(f) ==
  /\ repl_client.connected /\ repl_client.socket # NoSocket
  /\ cenv.frames < MaxFrames
  /\ cenv' = [cenv EXCEPT !.inbox = Append(@, f), !.frames = @ + 1]
  /\ UNCHANGED <<roleVars, monVars, elecVars, netVars, storeVars, coreVars, cliVars, limits,
                 hist, repl_client, bench>>

\* ReplicationClient.receive_msg reads nothing: the server has closed
ReceiveClosed ==
  /\ repl_client.connected /\ repl_client.socket # NoSocket
  /\ cenv.faults < MaxFaults
  /\ repl_client' = [repl_client EXCEPT !.connected = FALSE, !.socket = NoSocket]
  /\ cenv' = [cenv EXCEPT !.broken = FALSE, !.faults = @ + 1]
  /\ UNCHANGED <<roleVars, monVars, elecVars, netVars, storeVars, coreVars, cliVars, limits,
                 hist, bench>>

\* client.py 247: "no longer" in msg.body or "transition" in msg.body, for the
\* bodies the server writes in a server_status frame
ForcesReconnect(body) ==
  body \in {"Server is no longer available, please reconnect"}

\* ChatClientGUI.handle_msg for the frame at the head of the main thread's queue
HandleMsg ==
  LET f == Head(cenv.inbox) IN
  /\ cenv.inbox # <<>>
  /\ cenv' = [cenv EXCEPT !.inbox = Tail(@)]
  /\ IF f.cmd = "server_status" /\ ForcesReconnect(f.body)
     THEN repl_client' =
            [close(repl_client) EXCEPT
               !.current_server_idx = (repl_client.current_server_idx % NumReplicas) + 1,
               !.recent = FALSE]
     ELSE UNCHANGED repl_client
  /\ UNCHANGED <<roleVars, monVars, elecVars, netVars, storeVars, coreVars, cliVars, limits,
                 hist, bench>>

\* the reconnect backoff runs out
BackoffOver ==
  /\ repl_client.recent
  /\ repl_client' = [repl_client EXCEPT !.recent = FALSE]
  /\ UNCHANGED <<roleVars, monVars, elecVars, netVars, storeVars, coreVars, cliVars, limits,
                 hist, cenv, bench>>

\* the link of the client's socket fails: the next write raises
LinkBreaks ==
  /\ repl_client.socket # NoSocket /\ ~cenv.broken
  /\ cenv.faults < MaxFaults
  /\ cenv' = [cenv EXCEPT !.broken = TRUE, !.faults = @ + 1]
  /\ UNCHANGED <<roleVars, monVars, elecVars, netVars, storeVars, coreVars, cliVars, limits,
                 hist, repl_client, bench>>

\* a server process starts or stops listening on its client port
ServerListens(s) ==
  /\ cenv' = [cenv EXCEPT !.listening = IF s \in @ THEN @ \ {s} ELSE @ \cup {s}]
  /\ UNCHANGED <<roleVars, monVars, elecVars, netVars, storeVars, coreVars, cliVars, limits,
                 hist, repl_client, bench>>

\* the frames a server writes to a client that the client layer tells apart
ServerFrames ==
  {Unavailable, BackupMode, NoLongerAvailable,
   Error("send", "Server is in transition, please try again later"),
   Reply("list", "")}

\* The client program beside the settled cluster: the GUI has built its
\* ReplicationClient; what the servers do is seen by the layer as ports that
\* listen or not, frames that arrive and sockets that close.
InitLayer ==
  /\ Settled
  /\ nelect = 0 /\ nbeats = 0 /\ nstops = 0 /\ nsyncs = 0 /\ ncmds = 0
  /\ clients = {}

NextLayer ==
  \/ SendMsg
  \/ Reconnect
  \/ TryReconnect
  \/ \E f \in ServerFrames : ReceiveMsg(f)
  \/ ReceiveClosed
  \/ HandleMsg
  \/ BackoffOver
  \/ LinkBreaks
  \/ \E s \in Replicas : ServerListens(s)

SpecLayer == InitLayer /\ [][NextLayer]_vars

\* how often request id stands in the sequence of ids q
Times(q, id) == Cardinality({i \in 1..Len(q) : q[i] = id})

\* the ids of the requests written, in the order of the writes
WrittenIds(env) == [i \in 1..Len(env.written) |-> env.written[i].id]

\* C28: send_msg(M) returns true only if the layer was connected and M was
\* written to the socket; otherwise it returns false after M went to the
\* pending queue (from which the reconnect it triggers may already have
\* flushed it). After any sequence of calls, connects and disconnects every
\* submitted request is either pending or written exactly once.
C28_SendContract ==
  [][/\ SendMsg =>
          LET m == cenv'.submitted IN
          /\ cenv'.ret = TRUE
             => /\ repl_client.connected
                /\ cenv'.written = Append(cenv.written, [id |-> m, flushed |-> FALSE])
                /\ Times(repl_client'.message_queue, m) = 0
          /\ cenv'.ret = FALSE
             => /\ ~repl_client.connected \/ cenv.broken
                /\ \/ /\ repl_client'.message_queue # <<>>
                      /\ m \in {repl_client'.message_queue[i] :
                                  i \in 1..Len(repl_client'.message_queue)}
                   \/ \E i \in 1..Len(cenv'.written) :
                        cenv'.written[i] = [id |-> m, flushed |-> TRUE]
                /\ repl_client.recent \/ repl_client'.recent
     /\ \A id \in 1..cenv'.submitted :
          Times(repl_client'.message_queue, id) + Times(WrittenIds(cenv'), id) = 1]_vars

\* three requests were submitted: one was written at once, one was queued and
\* flushed by a reconnect, one is pending
C28_Witness ==
  /\ cenv.submitted = MaxRequests
  /\ \E i, j \in 1..Len(cenv.written) : cenv.written[i].flushed /\ ~cenv.written[j].flushed
  /\ repl_client.message_queue # <<>>
  /\ cenv.ret = FALSE

\* the step is a connect() whose flush of the queue failed on a write
FlushFails ==
  /\ SendMsg \/ Reconnect \/ TryReconnect
  /\ cenv'.faults > cenv.faults

\* C29: the requests are written in the order send_msg accepted them, the
\* queued ones before any request submitted after the reconnect; a request
\* whose write fails during a flush goes back to the head of the queue.
C29_FlushOrder ==
  [][/\ \A i, j \in 1..Len(cenv'.written) :
          i < j => cenv'.written[i].id < cenv'.written[j].id
     /\ FlushFails => Head(repl_client'.message_queue) = cenv'.failed]_vars

\* the server_status frames a server writes when it rejects a connection,
\* steps down to BACKUP or is no longer PRIMARY
Notices == {Unavailable, BackupMode, NoLongerAvailable}

\* C30: whenever the client handles a server_status error frame a server
\* emitted on unavailability or role change, it closes its socket and moves
\* on to the next replica of its list.
C30_NoticeRotates ==
  [][(HandleMsg /\ Head(cenv.inbox) \in Notices)
     => /\ repl_client'.socket = NoSocket /\ ~repl_client'.connected
        /\ repl_client'.current_server_idx
             = (repl_client.current_server_idx % NumReplicas) + 1]_vars

\* ----------------------------------------------------------------- backoff
\* the step is a connect() that went round the whole list and reached no server
RoundFails ==
  /\ SendMsg \/ Reconnect \/ TryReconnect
  /\ ~repl_client'.connected
  /\ ~repl_client.recent /\ repl_client'.recent

\* the step is a connect() that reached a server
RoundSucceeds ==
  /\ SendMsg \/ Reconnect \/ TryReconnect
  /\ repl_client'.connected
  /\ repl_client'.socket # repl_client.socket \/ ~repl_client.connected \/ TryReconnect

\* the step in which the layer loses its connection: an empty read or a write
\* that raises
Loses ==
  /\ repl_client.connected /\ ~repl_client'.connected
  /\ ReceiveClosed \/ SendMsg

\* C31: the reconnect backoff starts at 1 s, doubles after each failed round,
\* never exceeds 30 s and is 1 s again after every successful connect; after a
\* loss of the connection the next attempt starts at the replica that follows
\* the lost one in the list.
C31_BackoffAndRotation ==
  [][/\ repl_client'.reconnect_backoff <= max_reconnect_backoff
     /\ RoundFails => repl_client'.reconnect_backoff
                        = Min(2 * repl_client.reconnect_backoff, max_reconnect_backoff)
     /\ RoundSucceeds => repl_client'.reconnect_backoff = first_reconnect_backoff
     /\ ~(RoundFails \/ RoundSucceeds)
        => repl_client'.reconnect_backoff = repl_client.reconnect_backoff
     /\ Loses => repl_client'.current_server_idx = (repl_client.socket % NumReplicas) + 1]_vars


\* ------------------------------------------------ the store under its callers
\* The Storage calls of the PRIMARY of the settled cluster.  A call takes the
\* RLock of the Storage object it is made on, reads the file, and writes the
\* file back before it releases the lock; each thread makes its calls on the
\* Storage object its code holds.
MaxCalls == 3

Begun(op, u) == \E t \in Threads : sto.call[t].op = op /\ sto.call[t].user = u
Done(op, u) == \E k \in sto.done : k.op = op /\ k.user = u
Call(op, u, ids, id) == [op |-> op, user |-> u, ids |-> ids, id |-> id]

\* the calls a thread makes: handle_send, handle_delete_msgs, handle_create and
\* handle_delete in a handler; ADD_MESSAGE and DELETE_MESSAGES in
\* _handle_data_update; USERS and MESSAGES in _handle_sync_data.  An account is
\* created once, deleted while it exists, and ids are those of stored messages.
CallsOf(t) ==
  LET r == SettledPrimary
      adds == {Call("add_message", "alice", {}, nextId)}
      dels == {Call("delete_messages", "alice", {i}, 0) : i \in IdsOf(msgFile[r]["alice"])}
      news == {Call("add_user", u, {}, 0) :
                 u \in {v \in Users : /\ ~user_exists(usersFile[r], v)
                                      /\ ~Begun("add_user", v) /\ ~Done("add_user", v)}}
      gone == {Call("delete_user", u, {}, 0) :
                 u \in {v \in Users : v = "bob" /\ user_exists(usersFile[r], v)}}
  IN CASE t = "handler" -> adds \cup dels \cup news \cup gone
       [] t = "update" -> adds \cup dels
       [] t = "sync" -> news \cup adds

\* `with self.lock` of a Storage method and the read that follows it; the id of
\* add_message is drawn under the lock
StorageCall(t, k) ==
  /\ sto.calls < MaxCalls
  /\ sto.call[t] = NoCall
  /\ sto.lock[StorageOf(t)] = "none"
  /\ k \in CallsOf(t)
  /\ sto' = [sto EXCEPT !.lock[StorageOf(t)] = t, !.call[t] = k, !.calls = @ + 1,
                        !.local[t] = [uf |-> usersFile[SettledPrimary],
                                      mf |-> msgFile[SettledPrimary]]]
  /\ nextId' = IF k.op = "add_message" THEN nextId + 1 ELSE nextId
  /\ UNCHANGED <<roleVars, monVars, elecVars, netVars, usersFile, msgFile, coreVars, cliVars,
                 limits, hist, repl_client, cenv, codec, csock>>

\* the write of the method and the release of the lock
StorageReturn(t) ==
  LET k == sto.call[t]
      l == sto.local[t]
      r == SettledPrimary IN
  /\ k # NoCall
  /\ usersFile' =
       [usersFile EXCEPT ![r] =
          CASE k.op = "add_user" -> add_user(l.uf, k.user, "p1")
            [] k.op = "delete_user" /\ user_exists(l.uf, k.user) -> delete_user_users(l.uf, k.user)
            [] OTHER -> @]
  /\ msgFile' =
       [msgFile EXCEPT ![r] =
          CASE k.op = "add_message" ->
                 [@ EXCEPT ![k.user] = add_message(l.mf, k.user, k.user, "hi", k.id)[k.user]]
            [] k.op = "delete_messages" ->
                 IF delete_messages(l.mf, k.user, k.ids)[k.user] # l.mf[k.user]
                 THEN [@ EXCEPT ![k.user] = delete_messages(l.mf, k.user, k.ids)[k.user]]
                 ELSE @
            [] k.op = "delete_user" -> delete_user_msgs(l.uf, @, k.user)
            [] OTHER -> @]
  /\ sto' = [sto EXCEPT !.lock[StorageOf(t)] = "none", !.call[t] = NoCall,
                        !.local[t] = NoCalls.local[t], !.done = @ \cup {k}]
  /\ UNCHANGED <<roleVars, monVars, elecVars, netVars, nextId, coreVars, cliVars,
                 limits, hist, repl_client, cenv, codec, csock>>

InitStore ==
  /\ Settled
  /\ nelect = 0 /\ nbeats = 0 /\ nstops = 0 /\ nsyncs = 0 /\ ncmds = 0
  /\ clients = {}

\* the arguments a call can carry in a run of MaxCalls calls
Calls ==
  {Call(op, u, ids, id) : op \in {"add_message", "delete_messages", "add_user", "delete_user"},
                          u \in Users, ids \in {{}} \cup {{i} : i \in 1..MaxCalls},
                          id \in 0..MaxCalls}

NextStore ==
  \/ \E t \in Threads : \E k \in Calls : StorageCall(t, k)
  \/ \E t \in Threads : StorageReturn(t)

SpecStore == InitStore /\ [][NextStore]_vars

\* C32: every Storage call that has returned shows in the files of the replica,
\* whichever thread made it: a stored message is in its queue until a
\* delete_messages names it, a deleted message is in no queue, a created
\* account is in users.txt until it is deleted, and a deleted account is not
C32_NoLostUpdate ==
  \A k \in sto.done :
    CASE k.op = "add_message" ->
           (\A d \in sto.done : k.id \notin d.ids)
             => k.id \in IdsOf(msgFile[SettledPrimary][k.user])
      [] k.op = "delete_messages" ->
           k.ids \cap IdsOf(msgFile[SettledPrimary][k.user]) = {}
      [] k.op = "add_user" ->
           ~Done("delete_user", k.user) => user_exists(usersFile[SettledPrimary], k.user)
      [] k.op = "delete_user" -> ~user_exists(usersFile[SettledPrimary], k.user)
      [] OTHER -> TRUE


\* ------------------------------------------------------ the wire encodings
\* Text is written as its bytes: "" and two ASCII strings.  An id of msg_ids
\* is a string without a quote.
Text == {<<>>, <<97>>, <<104, 105>>}
Ids == {<<49>>, <<50, 51>>}
\* limit is written on two bytes
LimitWidth == 65536
LimitValues == {0, 1, LimitWidth - 1}
Lists == {<<>>} \cup {<<i>> : i \in Ids} \cup {<<i, j>> : i \in Ids, j \in Ids}

\* protocol.py 4-13: the dataclass; msg_ids is None or a list
Messages ==
  [cmd : Text \ {<<>>}, src : {<<>>, <<97>>}, to : {<<>>}, body : Text, error : BOOLEAN,
   msg_ids : {None} \cup {List(q) : q \in Lists}, limit : LimitValues]

\* JSONProtocol.encode: the dict handed to json.dumps
json_encode(M) ==
  [cmd |-> M.cmd, src |-> M.src, to |-> M.to, body |-> M.body, error |-> M.error,
   msg_ids |-> IF M.msg_ids # None THEN M.msg_ids.items ELSE <<>>,
   limit |-> M.limit]

\* JSONProtocol.decode: the Message built from the dict json.loads returns;
\* every key is present in a dict that encode wrote
json_decode(parsed) ==
  [cmd |-> parsed.cmd, src |-> parsed.src, to |-> parsed.to, body |-> parsed.body,
   error |-> parsed.error, msg_ids |-> List(parsed.msg_ids), limit |-> parsed.limit]

\* n.to_bytes(2, 'big') and int.from_bytes(b, 'big')
to_bytes2(n) == <<n \div 256, n % 256>>
from_bytes2(b) == b[1] * 256 + b[2]

RECURSIVE json_dumps_items(_)
\* json.dumps of a list of strings: ["1", "23"]
json_dumps_items(q) ==
  IF q = <<>> THEN <<>>
  ELSE <<34>> \o Head(q) \o <<34>>
         \o (IF Tail(q) = <<>> THEN <<>> ELSE <<44, 32>> \o json_dumps_items(Tail(q)))
json_dumps(q) == <<91>> \o json_dumps_items(q) \o <<93>>

\* the index of the first quote of b
RECURSIVE Quote(_, _)
Quote(b, i) == IF b[i] = 34 THEN i ELSE Quote(b, i + 1)

RECURSIVE json_loads_items(_)
\* json.loads of the text between the brackets
json_loads_items(b) ==
  IF b = <<>> THEN <<>>
  ELSE LET j == Quote(b, 2)
           rest == SubSeq(b, j + 1, Len(b)) IN
       <<SubSeq(b, 2, j - 1)>>
         \o (IF rest = <<>> THEN <<>> ELSE json_loads_items(SubSeq(rest, 3, Len(rest))))
json_loads(b) == json_loads_items(SubSeq(b, 2, Len(b) - 1))

\* CustomProtocol.encode
custom_encode(M) ==
  LET msg_ids_bytes == json_dumps(IF M.msg_ids # None THEN M.msg_ids.items ELSE <<>>) IN
  <<Len(M.cmd)>> \o M.cmd \o <<Len(M.src)>> \o M.src \o <<Len(M.to)>> \o M.to
    \o to_bytes2(Len(M.body)) \o M.body
    \o <<IF M.error THEN 1 ELSE 0>>
    \o to_bytes2(Len(msg_ids_bytes)) \o msg_ids_bytes
    \o to_bytes2(M.limit)

\* data[pos:pos+n]
Slice(data, pos, n) == SubSeq(data, pos + 1, pos + n)

\* CustomProtocol.decode
custom_decode(data) ==
  LET cmd_len == data[1]
      p1 == 1 + cmd_len
      src_len == data[p1 + 1]
      p2 == p1 + 1 + src_len
      to_len == data[p2 + 1]
      p3 == p2 + 1 + to_len
      body_len == from_bytes2(Slice(data, p3, 2))
      p4 == p3 + 2 + body_len
      p5 == p4 + 1
      msg_ids_len == from_bytes2(Slice(data, p5, 2))
      p6 == p5 + 2 + msg_ids_len IN
  [cmd |-> Slice(data, 1, cmd_len), src |-> Slice(data, p1 + 1, src_len),
   to |-> Slice(data, p2 + 1, to_len), body |-> Slice(data, p3 + 2, body_len),
   error |-> data[p4 + 1] = 1,
   msg_ids |-> IF msg_ids_len > 0 THEN List(json_loads(Slice(data, p5 + 2, msg_ids_len)))
               ELSE None,
   limit |-> from_bytes2(Slice(data, p6, 2))]

\* protocol.encode(message) of the sending side
Encode ==
  /\ codec.pc = "message"
  /\ codec' = [codec EXCEPT !.pc = "encoded",
                            !.dict = IF codec.protocol = "json" THEN json_encode(codec.message) ELSE @,
                            !.data = IF codec.protocol = "custom" THEN custom_encode(codec.message) ELSE @]
  /\ UNCHANGED <<roleVars, monVars, elecVars, netVars, storeVars, coreVars, cliVars, limits,
                 hist, repl_client, cenv, sto, csock>>

\* protocol.decode(data) of the receiving side
Decode ==
  /\ codec.pc = "encoded"
  /\ codec' = [codec EXCEPT !.pc = "decoded",
                            !.decoded = IF codec.protocol = "json" THEN json_decode(codec.dict)
                                        ELSE custom_decode(codec.data)]
  /\ UNCHANGED <<roleVars, monVars, elecVars, netVars, storeVars, coreVars, cliVars, limits,
                 hist, repl_client, cenv, sto, csock>>

\* One Message is built and sent through one of the two protocols.
InitCodec ==
  /\ SettledCluster
  /\ usersFile = [r \in Replicas |-> NoUsers]
  /\ msgFile = [r \in Replicas |-> NoMsgs]
  /\ usersMem = [r \in Replicas |-> NoUsers]
  /\ nextId = 1
  /\ nelect = 0 /\ nbeats = 0 /\ nstops = 0 /\ nsyncs = 0 /\ ncmds = 0
  /\ clients = {}
  /\ repl_client = NewClient /\ cenv = NoTraffic /\ sto = NoCalls /\ csock = NoWrites
  /\ codec \in {[NoCodec EXCEPT !.pc = "message", !.protocol = p, !.message = M] :
                  p \in {"json", "custom"}, M \in Messages}

NextCodec == Encode \/ Decode

SpecCodec == InitCodec /\ [][NextCodec]_vars

\* C33: the Message that decode builds from what encode wrote equals the
\* Message that was encoded, in both protocols
C33_RoundTrip == codec.pc = "decoded" => codec.decoded = codec.message


\* ------------------------------------------------ ELECTED at its recipient
\* the _handle_peer thread of r reads an ELECTED frame of peer p
ReadsElected(r, p) ==
  /\ CanRecv(r, p) /\ Head(chan[p][r]).cmd = "ELECTED"
  /\ RecvElected(r, p) \/ RecvDropped(r, p)

\* C34: a replica that reads ELECTED as PRIMARY or CANDIDATE is BACKUP after the
\* step, and in every role its election timer is armed by the step or by the
\* end of the step-down the step begins
C34_ElectedStepsDown ==
  [][\A r \in Replicas : \A p \in Replicas :
       ReadsElected(r, p) =>
         /\ rstate[r] \in {PRIMARY, CANDIDATE} => rstate'[r] = BACKUP
         /\ timerArmed'[r] \/ hpc'[r][p] = "stepdown"]_vars


\* ------------------------------------------------ ELECTION at its recipient
\* the _handle_peer thread of r reads an ELECTION frame of peer p
ReadsElection(r, p) ==
  /\ CanRecv(r, p) /\ Head(chan[p][r]).cmd = "ELECTION"
  /\ RecvElection(r, p) \/ RecvDropped(r, p)

\* the step takes r into _start_election: r turns CANDIDATE, or waits for
\* election_lock, or returns because it already is PRIMARY or CANDIDATE
EntersElection(r, p) ==
  \/ rstate[r] # CANDIDATE /\ rstate'[r] = CANDIDATE
  \/ hpc'[r][p] = "lockwait"
  \/ ~WillElect(r) /\ ~rtrans[r] /\ p < r

\* the step writes ELECTION_ACK on the link from r to p
Acks(r, p) ==
  /\ Len(chan'[r][p]) = Len(chan[r][p]) + 1
  /\ chan'[r][p][Len(chan'[r][p])].cmd = "ELECTION_ACK"

\* C35: a replica that reads ELECTION enters its own election exactly when its
\* identity is higher than the sender's, and it answers ELECTION_ACK only when
\* its identity is higher than the sender's
C35_ElectionAnswer ==
  [][\A r \in Replicas : \A p \in Replicas :
       ReadsElection(r, p) =>
         /\ EntersElection(r, p) <=> r > p
         /\ Acks(r, p) => r > p]_vars


\* ------------------------------------------------ the timers of a replica
\* a step of one of the replica's own timed threads: a round of _monitor_loop,
\* the election timer running out, a round of _heartbeat_loop
OwnTimer(r) == MonitorTick(r) \/ MonitorSync(r) \/ TimerFire(r) \/ Heartbeat(r)

\* _start_election has gone past its two early returns
ElectionStarted(r) == rstate[r] # CANDIDATE /\ rstate'[r] = CANDIDATE

OutsideTransition(r) == ~rtrans[r] /\ ~strans[r] /\ epc[r] = "idle"

\* C37: outside a role transition the role in the store of a running replica
\* is the role of its ReplicationServer, from the start of the process on
C37_StoredRoleIsRole ==
  \A r \in Replicas : (alive[r] /\ OutsideTransition(r)) => sstate[r] = rstate[r]


\* ------------------------------------------------ frames read in transition
\* the frames the spec calls essential
Essential == {"DATA_UPDATE", "SYNC_DATA", "ELECTED"}

\* the _handle_peer thread of r reads the frame at the head of the link from p
\* and goes back to recv without looking at it
Discards(r, p) == RecvDropped(r, p)

\* C38: a running replica never discards a DATA_UPDATE, SYNC_DATA or ELECTED
\* frame it reads, whether its transitioning flag is set or not
C38_EssentialApplied ==
  [][\A r \in Replicas : \A p \in Replicas :
       (CanRecv(r, p) /\ Head(chan[p][r]) # EOF /\ Head(chan[p][r]).cmd \in Essential)
         => ~Discards(r, p)]_vars


\* ------------------------------------------------ the bytes of a client socket
\* One session socket of the PRIMARY and the threads that write frames on it.
\* A frame is written by two calls of client.send: the 4-byte length, then the
\* encoded Message.
MaxWrites == 3

Part(kind, n) == [kind |-> kind, of |-> n]

\* client.send(len(encoded).to_bytes(4, 'big')): the header of the writer's next
\* frame; on a closed socket the call raises and the writer gives the frame up
SendHeader(t) ==
  /\ csock.writing[t] = 0
  /\ csock.frames < MaxWrites
  /\ csock' = IF csock.closed
             THEN [csock EXCEPT !.frames = @ + 1]
             ELSE [csock EXCEPT !.frames = @ + 1, !.writing[t] = csock.frames + 1,
                               !.stream = Append(@, Part("header", csock.frames + 1))]
  /\ UNCHANGED <<roleVars, monVars, elecVars, netVars, storeVars, coreVars, cliVars, limits,
                 hist, repl_client, cenv, sto, codec>>

\* client.send(encoded): the payload of the frame whose header the writer has
\* sent; _handle_state_change then closes the socket (server.py 98-101)
SendPayload(t) ==
  /\ csock.writing[t] # 0
  /\ csock' = [csock EXCEPT !.writing[t] = 0,
                          !.stream = IF csock.closed THEN @
                                     ELSE Append(@, Part("payload", csock.writing[t])),
                          !.closed = @ \/ t = "notice"]
  /\ UNCHANGED <<roleVars, monVars, elecVars, netVars, storeVars, coreVars, cliVars, limits,
                 hist, repl_client, cenv, sto, codec>>

InitSocket ==
  /\ Settled
  /\ nelect = 0 /\ nbeats = 0 /\ nstops = 0 /\ nsyncs = 0 /\ ncmds = 0
  /\ clients = {}

NextSocket ==
  \/ \E t \in Writers : SendHeader(t)
  \/ \E t \in Writers : SendPayload(t)

SpecSocket == InitSocket /\ [][NextSocket]_vars

\* C39: on the socket every header is followed at once by the payload of its
\* own frame: what follows a header is never a part of another frame
C39_HeaderThenPayload ==
  \A i \in 1..Len(csock.stream) :
    (csock.stream[i].kind = "header" /\ i < Len(csock.stream))
      => csock.stream[i + 1] = Part("payload", csock.stream[i].of)


\* ------------------------------------------------ the writers of a peer link
\* the step appends frames to the link from p to r
Writes(p, r) == Len(chan'[p][r]) > Len(chan[p][r])

\* the frames the step appends are frames of the protocol after HELLO, not the
\* end of the stream
WritesFrames(p, r) ==
  /\ Writes(p, r)
  /\ \A i \in (Len(chan[p][r]) + 1)..Len(chan'[p][r]) :
       chan'[p][r][i] # EOF /\ chan'[p][r][i].cmd # "HELLO"

\* C40: a frame is written on a peer link only by the _sender_loop thread of the
\* writing replica, as it takes the frame off outgoing_queue
C40_OnlySenderWrites ==
  [][\A p \in Replicas : \A r \in Replicas : WritesFrames(p, r) => Sender(p)]_vars

====
